---------------------------- MODULE Spec2Model ----------------------------
(***************************************************************************)
(* Registry synchronization and retention engine.                         *)
(*                                                                         *)
(* Two state machines share this module:                                   *)
(*   RetentionSpec  cleanup_old_versions.py: list the versions of one      *)
(*                  provider page by page, plan keep/delete, delete.       *)
(*   PipelineSpec   download_and_upload.py (single process) and            *)
(*                  download_to_s3.py + upload_from_s3.py (split): fetch   *)
(*                  the artifacts of one provider version, publish them.   *)
(*                                                                         *)
(* A version string is a sequence of one-character strings, so that        *)
(* parse_version is computed the way the code computes it.                 *)
(***************************************************************************)
EXTENDS Integers, Sequences, FiniteSets, TLC

\* ------------------------------------------------------------------ bounds
\* longest version listing of the private registry drawn from VersionPool
MaxVersions == 3
\* largest keep count drawn besides the default
MaxKeep == 3
\* items per page of the versions listing
PageSize == 2
\* versions another actor may remove from the registry during one run
MaxExternalRemovals == 1
\* most platforms one sync request names
MaxPlatforms == 3
\* how often an operator removes a partial version
MaxOperatorDeletes == 1
\* most dot-separated components of a generated version string
MaxComponents == 3

\* longest collection a lister walks
MaxListed == 5

\* most entries of one configuration document
MaxEntries == 2

\* most get_ca_bundle_path calls followed in one process
MaxCaCalls == 5

\* most page GETs of one listing that are followed
MaxPageFetches == 7

\* most platforms of a fetch run that writes to the intermediate store
MaxFetchPlatforms == 2

\* most providers list_providers returns to the cleanup handler
MaxProviders == 2

\* os.environ.get('KEEP_VERSION_COUNT', '10')
DefaultKeepCount == 10

\* ------------------------------------------------------- sequences, helpers
Min(a, b) == IF a <= b THEN a ELSE b

Range(s) == {s[i] : i \in 1 .. Len(s)}

Count(x, s) == Cardinality({i \in 1 .. Len(s) : s[i] = x})

\* s without its elements equal to x (the registry's listing after a removal)
Without(s, x) == SelectSeq(s, LAMBDA y : y # x)

\* the sequences without repetition over S of length at most n
RECURSIVE NoDupSeqs(_, _)
NoDupSeqs(S, n) ==
    IF n = 0 THEN {<<>>}
    ELSE LET shorter == NoDupSeqs(S, n - 1)
         IN  shorter \cup
                 UNION {{Append(s, x) : x \in S \ Range(s)} : s \in shorter}

\* ------------------------------------------------------------ version text
DigitChars == {"0", "1", "2", "3", "4", "5", "6", "7", "8", "9"}

DigitVal(c) ==
    CASE c = "0" -> 0 [] c = "1" -> 1 [] c = "2" -> 2 [] c = "3" -> 3
      [] c = "4" -> 4 [] c = "5" -> 5 [] c = "6" -> 6 [] c = "7" -> 7
      [] c = "8" -> 8 [] c = "9" -> 9

\* str.lstrip('v'): drops every leading "v", and nothing else
RECURSIVE lstrip_v(_)
lstrip_v(s) == IF s # <<>> /\ Head(s) = "v" THEN lstrip_v(Tail(s)) ELSE s

\* str.split('.'): the parts between the dots; an empty text gives one empty part
RECURSIVE split_dot(_, _)
split_dot(s, cur) ==
    IF s = <<>> THEN <<cur>>
    ELSE IF Head(s) = "." THEN <<cur>> \o split_dot(Tail(s), <<>>)
    ELSE split_dot(Tail(s), Append(cur, Head(s)))

\* the digits of an int() literal once an optional sign is taken off
int_digits(p) == IF p # <<>> /\ Head(p) \in {"+", "-"} THEN Tail(p) ELSE p

\* int(p) succeeds: an optional sign and at least one digit, nothing else
\* (blanks and "_" separators, which int() also takes, are outside the alphabet)
int_ok(p) ==
    /\ int_digits(p) # <<>>
    /\ \A i \in 1 .. Len(int_digits(p)) : int_digits(p)[i] \in DigitChars

RECURSIVE digits_value(_, _)
digits_value(d, acc) ==
    IF d = <<>> THEN acc ELSE digits_value(Tail(d), 10 * acc + DigitVal(Head(d)))

\* a key component that keeps the order of the text: the first character
\* decides, then the presence of a second, then the second
int_value_as_text(p) ==
    100 * DigitVal(p[1]) + (IF Len(p) > 1 THEN 10 + DigitVal(p[2]) ELSE 0)

int_value(p) ==
    IF p # <<>> /\ Head(p) = "-" THEN 0 - digits_value(int_digits(p), 0)
    ELSE digits_value(int_digits(p), 0)

\* a parser whose fallback key is one component long
parse_version_short_sentinel(version_string) ==
    LET parts == split_dot(lstrip_v(version_string), <<>>)
    IN  IF \A i \in 1 .. Len(parts) : int_ok(parts[i])
        THEN [i \in 1 .. Len(parts) |-> int_value(parts[i])]
        ELSE <<0>>

\* a part that is no int() literal raises ValueError, caught: the key is (0, 0, 0)
parse_version(version_string) ==
    LET parts == split_dot(lstrip_v(version_string), <<>>)
    IN  IF \A i \in 1 .. Len(parts) : int_ok(parts[i])
        THEN [i \in 1 .. Len(parts) |-> int_value(parts[i])]
        ELSE <<0, 0, 0>>

\* the order of Python tuples: the first differing component decides, and a
\* proper prefix is smaller
tuple_lt(a, b) ==
    \E i \in 1 .. Len(b) :
        /\ i <= Len(a) + 1
        /\ \A j \in 1 .. i - 1 : a[j] = b[j]
        /\ (i = Len(a) + 1 \/ a[i] < b[i])

key_lt(v, w) == tuple_lt(parse_version(v), parse_version(w))

\* ------------------------------------------------------------ the inputs
V_1_9_0 == <<"1", ".", "9", ".", "0">>
V_1_10_0 == <<"1", ".", "1", "0", ".", "0">>
V_v1_10_0 == <<"v", "1", ".", "1", "0", ".", "0">>
V_1_10 == <<"1", ".", "1", "0">>
V_1_0_0_b == <<"1", ".", "0", ".", "0", "-", "b">>

\* the version strings a listing is drawn from: numeric order against text
\* order, a "v" prefix, two lengths, a malformed string
VersionPool == {V_1_9_0, V_1_10_0, V_v1_10_0, V_1_10, V_1_0_0_b}

decimal(n) ==
    LET d == <<"0", "1", "2", "3", "4", "5", "6", "7", "8", "9">>
    IN  IF n < 10 THEN <<d[n + 1]>> ELSE <<d[(n \div 10) + 1], d[(n % 10) + 1]>>

\* "1.<n>.0"
minor_version(n) == <<"1", ".">> \o decimal(n) \o <<".", "0">>

\* the twelve versions 1.0.0 .. 1.11.0, oldest first, and newest first
ScenarioAscending == [i \in 1 .. 12 |-> minor_version(i - 1)]
ScenarioDescending == [i \in 1 .. 12 |-> minor_version(12 - i)]

RetRuns == {"r1", "r2"}

\* the items of a listed collection; a lister never looks inside an item
ListedPool == {"aws", "azurerm", "google", "null", "random"}

Listers == {"list_providers", "list_provider_versions"}

\* the token "latest" as written in configuration documents
T_latest == <<"l", "a", "t", "e", "s", "t">>
T_LATEST == <<"L", "A", "T", "E", "S", "T">>
T_Latest == <<"L", "a", "t", "e", "s", "t">>

\* required_fields of read_config
required_fields == {"provider", "namespace", "platforms"}

\* the fields an entry carries: all required ones, or all but one
EntryFields == {required_fields} \cup {required_fields \ {f} : f \in required_fields}

\* an entry's 'version': absent, the token in three spellings, or a version
EntryVersions == {<<>>, <<T_latest>>, <<T_LATEST>>, <<T_Latest>>, <<V_1_9_0>>}

\* the entries a configuration document is made of
EntryPool == [fields : EntryFields, version : EntryVersions]

\* the documents: an object is read as the list of its one entry
RECURSIVE ConfigDocs(_)
ConfigDocs(n) ==
    IF n = 0 THEN {<<>>}
    ELSE LET shorter == ConfigDocs(n - 1)
         IN  shorter \cup {Append(d, e) : d \in shorter, e \in EntryPool}

\* what the source registry names as a provider's latest version
SourceVersions == {V_1_9_0, V_1_10_0}

\* --------------------------------------------------------------- the state
VARIABLES
    registry_order,     \* the private registry's versions of the provider, in listing order
    start_order,        \* overlapping runs: the listing as it was when they started
    start_newest,       \* overlapping runs: the keep_count newest versions of it
    removals,           \* versions removed by another actor so far
    keep_count,         \* KEEP_VERSION_COUNT
    dry_run,            \* DRY_RUN
    rpc,                \* each retention run's position
    url,                \* list_provider_versions: the page to fetch next, 0 for None
    versions,           \* list_provider_versions: the items accumulated
    kept_versions,      \* the result's kept_versions
    versions_to_delete, \* the versions scheduled for deletion
    deleted_versions,   \* deleted_version_strings, the result's deleted_versions
    pos,                \* the delete loop's position in versions_to_delete
    delete_calls,       \* the DELETE calls a run issued, with their answers
    page_calls,         \* the page GETs a run issued, with their answers
    back_link           \* the page the last page's links.next names, 0 for none

retVars == <<registry_order, start_order, start_newest, removals, keep_count,
             dry_run, rpc, url, versions,
             kept_versions, versions_to_delete, deleted_versions, pos,
             delete_calls, page_calls, back_link>>

PlatformPool == {"linux_amd64", "darwin_arm64", "windows_amd64"}

PipeRuns == {"p1", "p2"}

VARIABLES
    platforms,          \* the request's platforms, in order
    reg_provider,       \* private registry: the provider resource exists
    reg_version,        \* private registry: the version resource exists
    reg_platforms,      \* private registry: the version's platform resources
    reg_uploads,        \* private registry: the artifacts uploaded to the version
    operator_deletes,   \* how often an operator deleted the version resource
    s3_objects,         \* intermediate store: the keys written under tmp/<provider>/<version>/
    s3_manifest,        \* intermediate store: the content of manifest.json, "none" when absent
    mode,               \* each sync run's pipeline: "single", "split" or "off"
    ppc,                \* each sync run's position
    fi,                 \* download loop: the platforms whose turn has begun
    download_info,      \* download loop: the descriptor of the current platform
    files,              \* download loop: files / manifest being built
    shasums_downloaded, \* download loop flag
    sig_downloaded,     \* download loop flag
    fetch_calls,        \* the source-registry calls a run issued
    fetch_result,       \* what download_provider(_to_s3) returned, "none" before
    manifest,           \* what upload_to_hcp was handed, "none" before
    provider_exists,    \* upload_to_hcp: the probe's result, "unset" before
    bi,                 \* upload loop: the binaries whose turn has begun
    platforms_uploaded, \* upload loop counter
    calls,              \* the private-registry calls and uploads a run issued
    result              \* platforms_count returned by upload_to_hcp, "none" before

pipeVars == <<platforms, operator_deletes, reg_provider, reg_version,
              reg_platforms, reg_uploads,
              s3_objects, s3_manifest, mode, ppc, fi, download_info, files,
              shasums_downloaded, sig_downloaded, fetch_calls, fetch_result,
              manifest, provider_exists, bi, platforms_uploaded, calls, result>>

VARIABLES
    components_a,       \* the components the first version string is written from
    components_b,       \* the components of the second
    version_a,          \* the first version string
    version_b,          \* the second version string
    key_a,              \* parse_version(version_a) once computed
    key_b,              \* parse_version(version_b) once computed
    comparison,         \* how the two keys compare once compared
    cpc                 \* "input", "parsed", "compared", or "off"

cmpVars == <<components_a, components_b, version_a, version_b, key_a, key_b,
             comparison, cpc>>

VARIABLES
    lister,             \* the lister that runs: "list_providers", "list_provider_versions", "off"
    listing,            \* the registry's collection the lister walks, in listing order
    list_url,           \* url: the page to fetch next, 0 for None
    list_items,         \* providers / versions: the items accumulated
    page_fetches,       \* the page GETs issued, with what each was answered
    list_result,        \* what the lister returned, empty before and when it raised
    lpc                 \* "loop", "returned", "raised", or "off"

lstVars == <<lister, listing, list_url, list_items, page_fetches, list_result, lpc>>

VARIABLES
    providers,          \* read_config: the entries of the configuration document
    idx,                \* read_config: the entries the loop has finished
    enriched_providers, \* read_config: the enriched entries built so far
    latest_calls,       \* the get_latest_version GETs issued, with their answers
    config_result,      \* the 'providers' read_config returned, empty before
    dispatched,         \* the returned entry handed to the sync run, 0 before
    cfg_pc              \* "loop", "returned", "raised", or "off"

cfgVars == <<providers, idx, enriched_providers, latest_calls, config_result,
             dispatched, cfg_pc>>

VARIABLES
    ca_module,          \* the module whose global is followed, "off" when none
    ca_secret_name,     \* CA_BUNDLE_SECRET_NAME, empty when unset
    ca_bundle_path,     \* _ca_bundle_path, empty for None
    temp_files,         \* the temporary files created so far
    ca_calls            \* the get_ca_bundle_path calls made, with what each did

caVars == <<ca_module, ca_secret_name, ca_bundle_path, temp_files, ca_calls>>

VARIABLES
    fetch_event,        \* download_to_s3: each fetch run's event
    store_objects,      \* the intermediate store: key, writing run and its namespace
    store_puts,         \* the keys each fetch run has written, in order
    fetch_pc            \* each fetch run's position: "off", "put", "done", "failed"

storeVars == <<fetch_event, store_objects, store_puts, fetch_pc>>

VARIABLES
    all_providers,      \* cleanup lambda_handler: what list_providers returned
    provider_idx,       \* the providers the for loop has finished
    results,            \* results
    summary,            \* the handler's return value, empty before
    hpc                 \* "off", "list_providers", "cleanup", "running", "summary",
                        \* "returned"

hdlVars == <<all_providers, provider_idx, results, summary, hpc>>

auxVars == <<lstVars, cfgVars, caVars, storeVars, hdlVars>>

vars == <<retVars, pipeVars, cmpVars, auxVars>>

\* ------------------------------------------------- list_provider_versions
\* the page the registry serves for page number n of its current listing
page_items(order, n) ==
    SubSeq(order, (n - 1) * PageSize + 1, Min(n * PageSize, Len(order)))

\* links.next of that page: the next page number, 0 when there is none
page_next(order, n) == IF n * PageSize < Len(order) THEN n + 1 ELSE 0

\* links.next as the registry serves it to a retention run: the next page
\* number, and behind the last page the page the registry links back to
links_next(order, n) ==
    IF page_next(order, n) # 0 THEN page_next(order, n) ELSE back_link

\* a loop that starts over from the first page whenever a page names a next one
next_url_restart(next_page) == IF next_page = 0 THEN 0 ELSE 1

\* url = f"{tfc_address}{next_page}" if next_page else None
next_url(next_page) == next_page

\* a lister that swallows the error and returns the pages it has
on_list_error_returns(fetched) == "plan"

\* response.raise_for_status() raising inside list_provider_versions: nothing
\* in cleanup_provider_versions catches it, the run ends
on_list_error(fetched) == "failed"

\* one turn of the while loop: GET the page, extend, follow links.next;
\* raise_for_status (or the transport) raising ends the run
ListPage(r) ==
    /\ rpc[r] = "list"
    /\ Len(page_calls[r]) < MaxPageFetches
    /\ \/ /\ versions' = [versions EXCEPT ![r] = @ \o page_items(registry_order, url[r])]
          /\ url' = [url EXCEPT ![r] = next_url(links_next(registry_order, @))]
          /\ rpc' = [rpc EXCEPT ![r] =
                        IF next_url(links_next(registry_order, url[r])) = 0
                        THEN "plan" ELSE "list"]
          /\ page_calls' = [page_calls EXCEPT ![r] =
                        Append(@, [page |-> url[r], ok |-> TRUE,
                                   next |-> links_next(registry_order, url[r])])]
       \/ /\ rpc' = [rpc EXCEPT ![r] = on_list_error(versions[r])]
          /\ page_calls' = [page_calls EXCEPT ![r] =
                        Append(@, [page |-> url[r], ok |-> FALSE, next |-> 0])]
          /\ UNCHANGED <<versions, url>>
    /\ UNCHANGED <<registry_order, start_order, start_newest, removals,
                   keep_count, dry_run, kept_versions,
                   versions_to_delete, deleted_versions, pos, delete_calls,
                   back_link>>
    /\ UNCHANGED <<pipeVars, cmpVars, auxVars>>

\* ------------------------------------------------------ the two listers
\* list_providers and list_provider_versions run the same loop over their
\* endpoint; links.next is read as a path below tfc_address, as the code does

\* the answers a page GET can get; 0 stands for the transport failing
page_statuses == {200, 401, 500, 0}

\* response.raise_for_status(), or the GET itself raising
page_fetch_raises(status) == status = 0 \/ status >= 400

\* a loop body that keeps only the page just fetched
extend_keeps_page(items, page) == page

\* providers.extend(...) / versions.extend(...)
extend(items, page) == items \o page

\* one turn of a lister's while loop; leaving the loop returns the items
FetchPage ==
    /\ lpc = "loop"
    /\ \E status \in page_statuses :
          LET page == page_items(listing, list_url)
              next_page == page_next(listing, list_url)
              fetch == [page |-> list_url, status |-> status,
                        items |-> IF status = 200 THEN page ELSE <<>>,
                        next |-> IF status = 200 THEN next_page ELSE 0]
          IN  /\ page_fetches' = Append(page_fetches, fetch)
              /\ IF page_fetch_raises(status)
                  THEN /\ lpc' = "raised"
                       /\ UNCHANGED <<list_url, list_items, list_result>>
                  ELSE /\ list_items' = extend(list_items, page)
                       /\ list_url' = next_url(next_page)
                       /\ IF next_url(next_page) = 0
                          THEN /\ lpc' = "returned"
                               /\ list_result' = <<extend(list_items, page)>>
                          ELSE /\ lpc' = "loop"
                               /\ UNCHANGED list_result
    /\ UNCHANGED <<lister, listing>>
    /\ UNCHANGED <<retVars, pipeVars, cmpVars, cfgVars, caVars,
                   storeVars, hdlVars>>

\* ---------------------------------------------- cleanup_provider_versions
\* sorted(..., reverse=True) is stable: x goes behind every element whose key
\* is not smaller than its own
\* an insertion that puts a version ahead of the versions it ties with
RECURSIVE insert_desc_before_ties(_, _)
insert_desc_before_ties(s, x) ==
    IF s = <<>> THEN <<x>>
    ELSE IF ~key_lt(x, Head(s)) THEN <<x>> \o s
    ELSE <<Head(s)>> \o insert_desc_before_ties(Tail(s), x)

RECURSIVE insert_desc(_, _)
insert_desc(s, x) ==
    IF s = <<>> THEN <<x>>
    ELSE IF key_lt(Head(s), x) THEN <<x>> \o s
    ELSE <<Head(s)>> \o insert_desc(Tail(s), x)

RECURSIVE sort_from(_, _)
sort_from(done, rest) ==
    IF rest = <<>> THEN done ELSE sort_from(insert_desc(done, Head(rest)), Tail(rest))

RECURSIVE insert_asc(_, _)
insert_asc(s, x) ==
    IF s = <<>> THEN <<x>>
    ELSE IF key_lt(x, Head(s)) THEN <<x>> \o s
    ELSE <<Head(s)>> \o insert_asc(Tail(s), x)

RECURSIVE sort_asc_from(_, _)
sort_asc_from(done, rest) ==
    IF rest = <<>> THEN done
    ELSE sort_asc_from(insert_asc(done, Head(rest)), Tail(rest))

\* the sort without reverse=True
sorted_versions_ascending(vs) == sort_asc_from(<<>>, vs)

sorted_versions(vs) == sort_from(<<>>, vs)

\* sorted_versions[:keep_count]
keep_slice(sorted, k) == SubSeq(sorted, 1, Min(k, Len(sorted)))

\* a slice that starts one element late
delete_slice_off_by_one(sorted, k) == SubSeq(sorted, k + 2, Len(sorted))

\* a slice taken from the wrong end: all but the last k
delete_slice_from_front(sorted, k) == SubSeq(sorted, 1, Len(sorted) - Min(k, Len(sorted)))

\* sorted_versions[keep_count:]
delete_slice(sorted, k) == SubSeq(sorted, k + 1, Len(sorted))

\* the k newest of a listing: the head of the sorted listing
newest_of(order, k) == Range(keep_slice(sorted_versions(order), k))

\* the len(versions) <= keep_count test, then the sort and the two slices
Plan(r) ==
    /\ rpc[r] = "plan"
    /\ IF Len(versions[r]) <= keep_count
       THEN /\ kept_versions' = [kept_versions EXCEPT ![r] = versions[r]]
            /\ rpc' = [rpc EXCEPT ![r] = "done"]
            /\ UNCHANGED versions_to_delete
       ELSE /\ kept_versions' = [kept_versions EXCEPT ![r] =
                                    keep_slice(sorted_versions(versions[r]), keep_count)]
            /\ versions_to_delete' = [versions_to_delete EXCEPT ![r] =
                                    delete_slice(sorted_versions(versions[r]), keep_count)]
            /\ rpc' = [rpc EXCEPT ![r] = "delete"]
    /\ UNCHANGED <<registry_order, start_order, start_newest, removals,
                   keep_count, dry_run, url, versions,
                   deleted_versions, pos, delete_calls, page_calls, back_link>>
    /\ UNCHANGED <<pipeVars, cmpVars, auxVars>>

\* the registry's answers to DELETE .../versions/{version}: 204 removes a
\* version it holds, 404 says it holds none, 500 stands for every other status;
\* 0 stands for the transport failing (no response)
delete_statuses(order, v) ==
    (IF v \in Range(order) THEN {204} ELSE {404}) \cup {500, 0}

\* delete_provider_version treating 404 like every other failure status
delete_provider_version_strict(status) ==
    IF status = 204 THEN "True" ELSE "raise"

\* delete_provider_version: True after a success status, False after 404,
\* raises after every other status and after a transport failure
delete_provider_version(status) ==
    IF status = 204 THEN "True"
    ELSE IF status = 404 THEN "False"
    ELSE "raise"

\* a loop whose except clause gives up the run
after_delete_aborting(outcome, last) ==
    IF outcome = "raise" THEN "failed" ELSE IF last THEN "done" ELSE "delete"

\* the for loop goes on after the except clause; after the last version the
\* result is returned
after_delete(outcome, last) == IF last THEN "done" ELSE "delete"

\* a loop that forgets the DRY_RUN test
issues_delete_always(dry) == TRUE

\* if dry_run: ... else: delete_provider_version(...)
issues_delete(dry) == ~dry

\* one turn of the for loop over versions_to_delete
DeleteStep(r) ==
    /\ rpc[r] = "delete"
    /\ LET v == versions_to_delete[r][pos[r]]
           last == pos[r] = Len(versions_to_delete[r])
       IN  IF ~issues_delete(dry_run)
           THEN /\ deleted_versions' = [deleted_versions EXCEPT ![r] = Append(@, v)]
                /\ rpc' = [rpc EXCEPT ![r] = IF last THEN "done" ELSE "delete"]
                /\ UNCHANGED <<registry_order, delete_calls>>
           ELSE \E status \in delete_statuses(registry_order, v) :
                  LET outcome == delete_provider_version(status)
                  IN  /\ registry_order' =
                            IF status = 204 THEN Without(registry_order, v)
                            ELSE registry_order
                      /\ delete_calls' = [delete_calls EXCEPT ![r] =
                            Append(@, [version |-> v, status |-> status])]
                      /\ deleted_versions' = [deleted_versions EXCEPT ![r] =
                            IF outcome = "raise" THEN @ ELSE Append(@, v)]
                      /\ rpc' = [rpc EXCEPT ![r] = after_delete(outcome, last)]
    /\ pos' = [pos EXCEPT ![r] = @ + 1]
    /\ UNCHANGED <<start_order, start_newest, removals, keep_count, dry_run,
                   url, versions, kept_versions,
                   versions_to_delete, page_calls, back_link>>
    /\ UNCHANGED <<pipeVars, cmpVars, auxVars>>

\* another actor (a concurrent run, an operator) removes a version while a run
\* is under way
ExternalRemove ==
    /\ removals < MaxExternalRemovals
    /\ \E r \in RetRuns : rpc[r] \in {"list", "plan", "delete"}
    /\ \E v \in Range(registry_order) :
          registry_order' = Without(registry_order, v)
    /\ removals' = removals + 1
    /\ UNCHANGED <<start_order, start_newest, keep_count, dry_run, rpc, url,
                   versions, kept_versions,
                   versions_to_delete, deleted_versions, pos, delete_calls,
                   page_calls, back_link>>
    /\ UNCHANGED <<pipeVars, cmpVars, auxVars>>

\* ------------------------------------------------------------- the fetch
\* download_provider (download_and_upload.py) and download_provider_to_s3
\* (download_to_s3.py) are the same loop; they differ in where the bytes go.

\* a download descriptor of the source registry: which of its fields it
\* carries (shasums_url and shasums_signature_url count as carried when truthy)
Descriptors ==
    [download_url : BOOLEAN, shasums_url : BOOLEAN, shasums_signature_url : BOOLEAN]

NoDescriptor ==
    [download_url |-> FALSE, shasums_url |-> FALSE, shasums_signature_url |-> FALSE]

\* files = {'binaries': [], 'shasums': None, 'signature': None}
NoFiles == [binaries |-> <<>>, shasums |-> FALSE, signature |-> FALSE]

fetch_call(op, platform, ok, info) ==
    [op |-> op, platform |-> platform, ok |-> ok, info |-> info]

\* a loop that logs a failed platform and goes on with the next one
on_fetch_error_skip(i) == IF i = Len(platforms) THEN "return_files" ELSE "lookup"

\* a handler that publishes whatever was fetched before the failure
on_fetch_error_publish(i) == "return_files"

\* a loop that tries the failed platform's download again
on_fetch_error_retry(i) == "binary"

\* nothing in the loop or in lambda_handler catches and continues: the
\* exception ends the run (lambda_handler re-raises it)
on_fetch_error(i) == "failed"

\* the end of one turn of the for loop, i turns having begun
loop_next(i) == IF i = Len(platforms) THEN "return_files" ELSE "lookup"

\* a loop that forgets its shasums_downloaded flag
shasums_due_every_platform(downloaded, info) == info.shasums_url

\* if not shasums_downloaded: ... if shasums_url:
shasums_due(downloaded, info) == ~downloaded /\ info.shasums_url

\* a signature block that runs only for a descriptor that also names the
\* checksum manifest
sig_due_with_shasums(downloaded, info) ==
    ~downloaded /\ info.shasums_signature_url /\ info.shasums_url

\* if not sig_downloaded: ... if sig_url:
sig_due(downloaded, info) == ~downloaded /\ info.shasums_signature_url

\* where the turn goes once the shasums block is behind it
after_shasums(p) ==
    IF sig_due(sig_downloaded[p], download_info[p]) THEN "signature"
    ELSE loop_next(fi[p])

\* lambda_handler up to the call of the download function: the environment
\* (and, in the single process, the token secret) may be missing
PStart(p) ==
    /\ ppc[p] = "start"
    /\ \/ ppc' = [ppc EXCEPT ![p] = "failed"]
       \/ ppc' = [ppc EXCEPT ![p] = loop_next(0)]
    /\ UNCHANGED <<platforms, operator_deletes,
                   reg_provider, reg_version, reg_platforms, reg_uploads,
                   s3_objects, s3_manifest, mode, fi, download_info, files,
                   shasums_downloaded, sig_downloaded, fetch_calls, fetch_result,
                   manifest, provider_exists, bi, platforms_uploaded, calls, result>>
    /\ UNCHANGED <<retVars, cmpVars, auxVars>>

\* GET .../download/{os}/{arch}, raise_for_status, download_info['download_url']
Lookup(p) ==
    /\ ppc[p] = "lookup"
    /\ fi' = [fi EXCEPT ![p] = @ + 1]
    /\ LET pl == platforms[fi[p] + 1]
       IN  \/ /\ fetch_calls' = [fetch_calls EXCEPT ![p] =
                    Append(@, fetch_call("lookup", pl, FALSE, NoDescriptor))]
              /\ ppc' = [ppc EXCEPT ![p] = on_fetch_error(fi[p] + 1)]
              /\ UNCHANGED download_info
           \/ \E info \in Descriptors :
                /\ fetch_calls' = [fetch_calls EXCEPT ![p] =
                      Append(@, fetch_call("lookup", pl, TRUE, info))]
                /\ download_info' = [download_info EXCEPT ![p] = info]
                /\ ppc' = [ppc EXCEPT ![p] =
                      IF info.download_url THEN "binary"
                      ELSE on_fetch_error(fi[p] + 1)]
    /\ UNCHANGED <<platforms, operator_deletes,
                   reg_provider, reg_version, reg_platforms, reg_uploads,
                   s3_objects, s3_manifest, mode, files, shasums_downloaded,
                   sig_downloaded, fetch_result, manifest, provider_exists, bi,
                   platforms_uploaded, calls, result>>
    /\ UNCHANGED <<retVars, cmpVars, auxVars>>

\* download_file / download_to_s3 of the binary, then files['binaries'].append
Binary(p) ==
    /\ ppc[p] = "binary"
    /\ LET pl == platforms[fi[p]]
       IN  \/ /\ fetch_calls' = [fetch_calls EXCEPT ![p] =
                    Append(@, fetch_call("binary", pl, FALSE, NoDescriptor))]
              /\ ppc' = [ppc EXCEPT ![p] = on_fetch_error(fi[p])]
              /\ UNCHANGED <<files, s3_objects>>
           \/ /\ fetch_calls' = [fetch_calls EXCEPT ![p] =
                    Append(@, fetch_call("binary", pl, TRUE, NoDescriptor))]
              /\ files' = [files EXCEPT ![p].binaries = Append(@, pl)]
              /\ s3_objects' = IF mode[p] = "split" THEN s3_objects \cup {pl}
                               ELSE s3_objects
              /\ ppc' = [ppc EXCEPT ![p] =
                    IF shasums_due(shasums_downloaded[p], download_info[p])
                    THEN "shasums" ELSE after_shasums(p)]
    /\ UNCHANGED <<platforms, operator_deletes,
                   reg_provider, reg_version, reg_platforms, reg_uploads,
                   s3_manifest, mode, fi, download_info, shasums_downloaded,
                   sig_downloaded, fetch_result, manifest, provider_exists, bi,
                   platforms_uploaded, calls, result>>
    /\ UNCHANGED <<retVars, cmpVars, auxVars>>

\* the SHA256SUMS block of the turn
Shasums(p) ==
    /\ ppc[p] = "shasums"
    /\ LET pl == platforms[fi[p]]
       IN  \/ /\ fetch_calls' = [fetch_calls EXCEPT ![p] =
                    Append(@, fetch_call("shasums", pl, FALSE, NoDescriptor))]
              /\ ppc' = [ppc EXCEPT ![p] = on_fetch_error(fi[p])]
              /\ UNCHANGED <<files, s3_objects, shasums_downloaded>>
           \/ /\ fetch_calls' = [fetch_calls EXCEPT ![p] =
                    Append(@, fetch_call("shasums", pl, TRUE, NoDescriptor))]
              /\ files' = [files EXCEPT ![p].shasums = TRUE]
              /\ shasums_downloaded' = [shasums_downloaded EXCEPT ![p] = TRUE]
              /\ s3_objects' = IF mode[p] = "split" THEN s3_objects \cup {"SHA256SUMS"}
                               ELSE s3_objects
              /\ ppc' = [ppc EXCEPT ![p] = after_shasums(p)]
    /\ UNCHANGED <<platforms, operator_deletes,
                   reg_provider, reg_version, reg_platforms, reg_uploads,
                   s3_manifest, mode, fi, download_info, sig_downloaded,
                   fetch_result, manifest, provider_exists, bi, platforms_uploaded,
                   calls, result>>
    /\ UNCHANGED <<retVars, cmpVars, auxVars>>

\* the SHA256SUMS.sig block of the turn
Signature(p) ==
    /\ ppc[p] = "signature"
    /\ LET pl == platforms[fi[p]]
       IN  \/ /\ fetch_calls' = [fetch_calls EXCEPT ![p] =
                    Append(@, fetch_call("signature", pl, FALSE, NoDescriptor))]
              /\ ppc' = [ppc EXCEPT ![p] = on_fetch_error(fi[p])]
              /\ UNCHANGED <<files, s3_objects, sig_downloaded>>
           \/ /\ fetch_calls' = [fetch_calls EXCEPT ![p] =
                    Append(@, fetch_call("signature", pl, TRUE, NoDescriptor))]
              /\ files' = [files EXCEPT ![p].signature = TRUE]
              /\ sig_downloaded' = [sig_downloaded EXCEPT ![p] = TRUE]
              /\ s3_objects' = IF mode[p] = "split"
                               THEN s3_objects \cup {"SHA256SUMS.sig"}
                               ELSE s3_objects
              /\ ppc' = [ppc EXCEPT ![p] = loop_next(fi[p])]
    /\ UNCHANGED <<platforms, operator_deletes,
                   reg_provider, reg_version, reg_platforms, reg_uploads,
                   s3_manifest, mode, fi, download_info, shasums_downloaded,
                   fetch_result, manifest, provider_exists, bi, platforms_uploaded,
                   calls, result>>
    /\ UNCHANGED <<retVars, cmpVars, auxVars>>

\* return files: the single process hands them to upload_to_hcp, the split
\* download handler goes on to write manifest.json
ReturnFiles(p) ==
    /\ ppc[p] = "return_files"
    /\ fetch_result' = [fetch_result EXCEPT ![p] = <<files[p]>>]
    /\ IF mode[p] = "single"
       THEN /\ manifest' = [manifest EXCEPT ![p] = <<files[p]>>]
            /\ ppc' = [ppc EXCEPT ![p] = "check_provider"]
       ELSE /\ ppc' = [ppc EXCEPT ![p] = "put_manifest"]
            /\ UNCHANGED manifest
    /\ UNCHANGED <<platforms, operator_deletes,
                   reg_provider, reg_version, reg_platforms, reg_uploads,
                   s3_objects, s3_manifest, mode, fi, download_info, files,
                   shasums_downloaded, sig_downloaded, fetch_calls,
                   provider_exists, bi, platforms_uploaded, calls, result>>
    /\ UNCHANGED <<retVars, cmpVars, auxVars>>

\* download_to_s3.lambda_handler: s3_client.put_object of manifest.json
PutManifest(p) ==
    /\ ppc[p] = "put_manifest"
    /\ \/ /\ ppc' = [ppc EXCEPT ![p] = "failed"]
          /\ UNCHANGED <<s3_objects, s3_manifest>>
       \/ /\ s3_manifest' = fetch_result[p]
          /\ s3_objects' = s3_objects \cup {"manifest.json"}
          /\ ppc' = [ppc EXCEPT ![p] = "read_manifest"]
    /\ UNCHANGED <<platforms, operator_deletes,
                   reg_provider, reg_version, reg_platforms, reg_uploads,
                   mode, fi, download_info, files, shasums_downloaded,
                   sig_downloaded, fetch_calls, fetch_result, manifest,
                   provider_exists, bi, platforms_uploaded, calls, result>>
    /\ UNCHANGED <<retVars, cmpVars, auxVars>>

\* upload_from_s3.lambda_handler up to the call of upload_to_hcp: environment,
\* token secret, s3_client.get_object of the manifest
ReadManifest(p) ==
    /\ ppc[p] = "read_manifest"
    /\ \/ /\ ppc' = [ppc EXCEPT ![p] = "failed"]
          /\ UNCHANGED manifest
       \/ /\ s3_manifest # <<>>
          /\ manifest' = [manifest EXCEPT ![p] = s3_manifest]
          /\ ppc' = [ppc EXCEPT ![p] = "check_provider"]
    /\ UNCHANGED <<platforms, operator_deletes,
                   reg_provider, reg_version, reg_platforms, reg_uploads,
                   s3_objects, s3_manifest, mode, fi, download_info, files,
                   shasums_downloaded, sig_downloaded, fetch_calls, fetch_result,
                   provider_exists, bi, platforms_uploaded, calls, result>>
    /\ UNCHANGED <<retVars, cmpVars, auxVars>>

\* ---------------------------------------------------------- the publisher
\* upload_to_hcp of download_and_upload.py and of upload_from_s3.py: the same
\* registry calls; the split one first copies each artifact out of the store.
registry_call(op, arg, status, ok) ==
    [op |-> op, arg |-> arg, status |-> status, ok |-> ok]

\* the private registry's answers; 500 stands for every unexpected status and
\* 0 for the transport failing (timeout, connection error: requests raises)
probe_statuses == (IF reg_provider THEN {200} ELSE {404}) \cup {500, 0}

create_provider_statuses == (IF reg_provider THEN {422} ELSE {201}) \cup {500, 0}

\* the registry holds one version resource per version string
create_version_statuses ==
    (IF ~reg_provider THEN {404} ELSE IF reg_version THEN {422} ELSE {201})
        \cup {500, 0}

create_platform_statuses(b) ==
    (IF ~reg_version THEN {404} ELSE IF b \in reg_platforms THEN {422} ELSE {201})
        \cup {500, 0}

put_statuses == {200, 500, 0}

\* return response.status_code == 200
check_provider_exists(status) == status = 200

\* a publisher that posts the provider whatever the probe said
needs_create_always(exists) == TRUE

\* if not provider_exists: create_provider(...)
needs_create(exists) == ~exists

\* a create_version without raise_for_status
create_version_never_raises(status) == status = 0

\* a create_version that takes the conflict answer for the existing version
create_version_tolerates_conflict(status) == status \notin {201, 422}

\* response.raise_for_status() after the POST (the transport raises by itself)
create_version_raises(status) == status # 201

\* a publisher that goes straight on to the platforms
after_create_version_skip_shared(p) ==
    IF manifest[p][1].binaries = <<>> THEN "done"
    ELSE IF mode[p] = "split" THEN "s3_binary" ELSE "create_platform"

\* after create_version: the split publisher copies SHA256SUMS and
\* SHA256SUMS.sig out of the store before it uploads either
after_create_version(p) == IF mode[p] = "split" THEN "s3_shasums" ELSE "upload_shasums"

\* a loop that leaves out the last binary
binaries_next_stops_early(p, done) ==
    IF done + 1 >= Len(manifest[p][1].binaries) THEN "done"
    ELSE IF mode[p] = "split" THEN "s3_binary" ELSE "create_platform"

\* the head of the for loop over the binaries, done turns behind it
binaries_next(p, done) ==
    IF done = Len(manifest[p][1].binaries) THEN "done"
    ELSE IF mode[p] = "split" THEN "s3_binary" ELSE "create_platform"

CheckProvider(p) ==
    /\ ppc[p] = "check_provider"
    /\ \E status \in probe_statuses :
          /\ calls' = [calls EXCEPT ![p] =
                Append(@, registry_call("check_provider", "", status, status # 0))]
          /\ IF status = 0
             THEN /\ ppc' = [ppc EXCEPT ![p] = "failed"]
                  /\ UNCHANGED provider_exists
             ELSE /\ provider_exists' = [provider_exists EXCEPT ![p] =
                        <<check_provider_exists(status)>>]
                  /\ ppc' = [ppc EXCEPT ![p] =
                        IF needs_create(check_provider_exists(status))
                        THEN "create_provider" ELSE "create_version"]
    /\ UNCHANGED <<platforms, operator_deletes,
                   reg_provider, reg_version, reg_platforms, reg_uploads,
                   s3_objects, s3_manifest, mode, fi, download_info, files,
                   shasums_downloaded, sig_downloaded, fetch_calls, fetch_result,
                   manifest, bi, platforms_uploaded, result>>
    /\ UNCHANGED <<retVars, cmpVars, auxVars>>

CreateProvider(p) ==
    /\ ppc[p] = "create_provider"
    /\ \E status \in create_provider_statuses :
          /\ calls' = [calls EXCEPT ![p] =
                Append(@, registry_call("create_provider", "", status, status = 201))]
          /\ reg_provider' = (reg_provider \/ status = 201)
          /\ ppc' = [ppc EXCEPT ![p] =
                IF status = 201 THEN "create_version" ELSE "failed"]
    /\ UNCHANGED <<platforms, operator_deletes,
                   reg_version, reg_platforms, reg_uploads,
                   s3_objects, s3_manifest, mode, fi, download_info, files,
                   shasums_downloaded, sig_downloaded, fetch_calls, fetch_result,
                   manifest, provider_exists, bi, platforms_uploaded, result>>
    /\ UNCHANGED <<retVars, cmpVars, auxVars>>

CreateVersion(p) ==
    /\ ppc[p] = "create_version"
    /\ \E status \in create_version_statuses :
          /\ calls' = [calls EXCEPT ![p] =
                Append(@, registry_call("create_version", "", status, status = 201))]
          /\ reg_version' = (reg_version \/ status = 201)
          /\ ppc' = [ppc EXCEPT ![p] =
                IF create_version_raises(status) THEN "failed"
                ELSE after_create_version(p)]
    /\ UNCHANGED <<platforms, operator_deletes,
                   reg_provider, reg_platforms, reg_uploads,
                   s3_objects, s3_manifest, mode, fi, download_info, files,
                   shasums_downloaded, sig_downloaded, fetch_calls, fetch_result,
                   manifest, provider_exists, bi, platforms_uploaded, result>>
    /\ UNCHANGED <<retVars, cmpVars, auxVars>>

\* upload_from_s3 only: s3_client.download_file(bucket, manifest['shasums_key'], ...);
\* a key of None is refused
S3Shasums(p) ==
    /\ ppc[p] = "s3_shasums"
    /\ \/ ppc' = [ppc EXCEPT ![p] = "failed"]
       \/ /\ manifest[p][1].shasums
          /\ ppc' = [ppc EXCEPT ![p] = "s3_signature"]
    /\ UNCHANGED <<platforms, operator_deletes,
                   reg_provider, reg_version, reg_platforms, reg_uploads,
                   s3_objects, s3_manifest, mode, fi, download_info, files,
                   shasums_downloaded, sig_downloaded, fetch_calls, fetch_result,
                   manifest, provider_exists, bi, platforms_uploaded, calls, result>>
    /\ UNCHANGED <<retVars, cmpVars, auxVars>>

\* upload_from_s3 only: s3_client.download_file(bucket, manifest['signature_key'], ...)
S3Signature(p) ==
    /\ ppc[p] = "s3_signature"
    /\ \/ ppc' = [ppc EXCEPT ![p] = "failed"]
       \/ /\ manifest[p][1].signature
          /\ ppc' = [ppc EXCEPT ![p] = "upload_shasums"]
    /\ UNCHANGED <<platforms, operator_deletes,
                   reg_provider, reg_version, reg_platforms, reg_uploads,
                   s3_objects, s3_manifest, mode, fi, download_info, files,
                   shasums_downloaded, sig_downloaded, fetch_calls, fetch_result,
                   manifest, provider_exists, bi, platforms_uploaded, calls, result>>
    /\ UNCHANGED <<retVars, cmpVars, auxVars>>

\* upload_file_to_url(files['shasums'], shasums_upload_url): open(None) raises
\* before any PUT when the fetch set no SHA256SUMS
UploadShasums(p) ==
    /\ ppc[p] = "upload_shasums"
    /\ IF ~manifest[p][1].shasums
       THEN /\ ppc' = [ppc EXCEPT ![p] = "failed"]
            /\ UNCHANGED <<calls, reg_uploads>>
       ELSE \E status \in put_statuses :
              /\ calls' = [calls EXCEPT ![p] =
                    Append(@, registry_call("upload_shasums", "", status, status = 200))]
              /\ reg_uploads' = IF status = 200 THEN reg_uploads \cup {"SHA256SUMS"}
                                ELSE reg_uploads
              /\ ppc' = [ppc EXCEPT ![p] =
                    IF status = 200 THEN "upload_signature" ELSE "failed"]
    /\ UNCHANGED <<platforms, operator_deletes,
                   reg_provider, reg_version, reg_platforms,
                   s3_objects, s3_manifest, mode, fi, download_info, files,
                   shasums_downloaded, sig_downloaded, fetch_calls, fetch_result,
                   manifest, provider_exists, bi, platforms_uploaded, result>>
    /\ UNCHANGED <<retVars, cmpVars, auxVars>>

\* upload_file_to_url(files['signature'], shasums_sig_upload_url), then
\* platforms_uploaded = 0 and the head of the for loop
UploadSignature(p) ==
    /\ ppc[p] = "upload_signature"
    /\ IF ~manifest[p][1].signature
       THEN /\ ppc' = [ppc EXCEPT ![p] = "failed"]
            /\ UNCHANGED <<calls, reg_uploads, bi, result>>
       ELSE \E status \in put_statuses :
              /\ calls' = [calls EXCEPT ![p] =
                    Append(@, registry_call("upload_signature", "", status, status = 200))]
              /\ reg_uploads' = IF status = 200
                                THEN reg_uploads \cup {"SHA256SUMS.sig"}
                                ELSE reg_uploads
              /\ ppc' = [ppc EXCEPT ![p] =
                    IF status = 200 THEN binaries_next(p, 0) ELSE "failed"]
              /\ bi' = [bi EXCEPT ![p] = IF status = 200 THEN 1 ELSE @]
              /\ result' = [result EXCEPT ![p] =
                    IF status = 200 /\ binaries_next(p, 0) = "done"
                    THEN <<platforms_uploaded[p]>> ELSE @]
    /\ UNCHANGED <<platforms, operator_deletes,
                   reg_provider, reg_version, reg_platforms,
                   s3_objects, s3_manifest, mode, fi, download_info, files,
                   shasums_downloaded, sig_downloaded, fetch_calls, fetch_result,
                   manifest, provider_exists, platforms_uploaded>>
    /\ UNCHANGED <<retVars, cmpVars, auxVars>>

\* upload_from_s3 only: s3_client.download_file(bucket, binary_info['s3_key'], ...)
S3Binary(p) ==
    /\ ppc[p] = "s3_binary"
    /\ \/ ppc' = [ppc EXCEPT ![p] = "failed"]
       \/ /\ manifest[p][1].binaries[bi[p]] \in s3_objects
          /\ ppc' = [ppc EXCEPT ![p] = "create_platform"]
    /\ UNCHANGED <<platforms, operator_deletes,
                   reg_provider, reg_version, reg_platforms, reg_uploads,
                   s3_objects, s3_manifest, mode, fi, download_info, files,
                   shasums_downloaded, sig_downloaded, fetch_calls, fetch_result,
                   manifest, provider_exists, bi, platforms_uploaded, calls, result>>
    /\ UNCHANGED <<retVars, cmpVars, auxVars>>

\* calculate_shasum, then POST .../platforms with raise_for_status
CreatePlatform(p) ==
    /\ ppc[p] = "create_platform"
    /\ LET b == manifest[p][1].binaries[bi[p]]
       IN  \E status \in create_platform_statuses(b) :
              /\ calls' = [calls EXCEPT ![p] =
                    Append(@, registry_call("create_platform", b, status, status = 201))]
              /\ reg_platforms' = IF status = 201 THEN reg_platforms \cup {b}
                                  ELSE reg_platforms
              /\ ppc' = [ppc EXCEPT ![p] =
                    IF status = 201 THEN "upload_binary" ELSE "failed"]
    /\ UNCHANGED <<platforms, operator_deletes,
                   reg_provider, reg_version, reg_uploads,
                   s3_objects, s3_manifest, mode, fi, download_info, files,
                   shasums_downloaded, sig_downloaded, fetch_calls, fetch_result,
                   manifest, provider_exists, bi, platforms_uploaded, result>>
    /\ UNCHANGED <<retVars, cmpVars, auxVars>>

\* upload_file_to_url(binary, binary_upload_url), platforms_uploaded += 1, and
\* the next turn or the return of platforms_count
UploadBinary(p) ==
    /\ ppc[p] = "upload_binary"
    /\ LET b == manifest[p][1].binaries[bi[p]]
       IN  \E status \in put_statuses :
              /\ calls' = [calls EXCEPT ![p] =
                    Append(@, registry_call("upload_binary", b, status, status = 200))]
              /\ IF status = 200
                 THEN /\ reg_uploads' = reg_uploads \cup {b}
                      /\ platforms_uploaded' = [platforms_uploaded EXCEPT ![p] = @ + 1]
                      /\ ppc' = [ppc EXCEPT ![p] = binaries_next(p, bi[p])]
                      /\ bi' = [bi EXCEPT ![p] =
                            IF binaries_next(p, bi[p]) = "done" THEN @ ELSE @ + 1]
                      /\ result' = [result EXCEPT ![p] =
                            IF binaries_next(p, bi[p]) = "done"
                            THEN <<platforms_uploaded[p] + 1>> ELSE @]
                 ELSE /\ ppc' = [ppc EXCEPT ![p] = "failed"]
                      /\ UNCHANGED <<reg_uploads, platforms_uploaded, bi, result>>
    /\ UNCHANGED <<platforms, operator_deletes,
                   reg_provider, reg_version, reg_platforms,
                   s3_objects, s3_manifest, mode, fi, download_info, files,
                   shasums_downloaded, sig_downloaded, fetch_calls, fetch_result,
                   manifest, provider_exists>>
    /\ UNCHANGED <<retVars, cmpVars, auxVars>>

\* ------------------------------------------------------- the version probe
\* check_version.py, run ahead of the pipeline for each provider version
version_probe_statuses == (IF reg_version THEN {200} ELSE {404}) \cup {500, 0}

\* return response.status_code == 200 (any other status is only logged)
check_version_on_hcp(status) == status = 200

\* 'shouldProcess': not version_exists
should_process(version_exists) == ~version_exists

\* lambda_handler of check_version.py: the probe's answer decides whether the
\* pipeline is entered; an exception is re-raised
CheckVersion(p) ==
    /\ ppc[p] = "check_version"
    /\ \E status \in version_probe_statuses :
          /\ calls' = [calls EXCEPT ![p] =
                Append(@, registry_call("check_version", "", status, status # 0))]
          /\ ppc' = [ppc EXCEPT ![p] =
                IF status = 0 THEN "failed"
                ELSE IF should_process(check_version_on_hcp(status)) THEN "start"
                ELSE "skipped"]
    /\ UNCHANGED <<platforms, operator_deletes,
                   reg_provider, reg_version,
                   reg_platforms, reg_uploads,
                   s3_objects, s3_manifest, mode, fi, download_info, files,
                   shasums_downloaded, sig_downloaded, fetch_calls, fetch_result,
                   manifest, provider_exists, bi, platforms_uploaded, result>>
    /\ UNCHANGED <<retVars, cmpVars, auxVars>>

\* ------------------------------------------------------------ read_config
\* str.lower() over the letters the inputs are written with
lower_char(c) ==
    CASE c = "L" -> "l" [] c = "A" -> "a" [] c = "T" -> "t"
      [] c = "E" -> "e" [] c = "S" -> "s" [] OTHER -> c

lower(text) == [i \in 1 .. Len(text) |-> lower_char(text[i])]

\* provider_config.get('version', 'latest')
get_version(entry) == IF entry.version = <<>> THEN T_latest ELSE entry.version[1]

\* a test that knows only the lower-case spelling
is_latest_exact(version) == version = T_latest

\* version.lower() == 'latest'
is_latest(version) == lower(version) = T_latest

\* 'if field not in provider_config' holds for one of the required fields
lacks_required_field(entry) == required_fields \ entry.fields # {}

\* the source registry's answers to GET /v1/providers/{namespace}/{provider}:
\* a status and the body's "version", empty when the body has none; 0 stands
\* for the transport failing
latest_answers ==
    {[status |-> 200, version |-> <<v>>] : v \in SourceVersions}
        \cup {[status |-> st, version |-> <<>>] : st \in {200, 404, 500, 0}}

\* response.raise_for_status(), or "if not version: raise ValueError"
get_latest_version_raises(answer) == answer.status # 200 \/ answer.version = <<>>

enriched_config(i, version) == [entry |-> i, version |-> version]

\* one turn of the loop over the document's entries: the required fields are
\* tested, "latest" is resolved through the source registry, the enriched
\* entry is appended; every exception is re-raised by the handler
ValidateEntry ==
    /\ cfg_pc = "loop"
    /\ idx < Len(providers)
    /\ LET provider_config == providers[idx + 1]
           version == get_version(provider_config)
       IN  IF lacks_required_field(provider_config)
           THEN /\ cfg_pc' = "raised"
                /\ UNCHANGED <<idx, enriched_providers, latest_calls>>
           ELSE IF is_latest(version)
           THEN \E answer \in latest_answers :
                    /\ latest_calls' = Append(latest_calls,
                           [entry |-> idx + 1, status |-> answer.status,
                            version |-> answer.version])
                    /\ IF get_latest_version_raises(answer)
                       THEN /\ cfg_pc' = "raised"
                            /\ UNCHANGED <<idx, enriched_providers>>
                       ELSE /\ enriched_providers' = Append(enriched_providers,
                                    enriched_config(idx + 1, answer.version[1]))
                            /\ idx' = idx + 1
                            /\ UNCHANGED cfg_pc
           ELSE /\ enriched_providers' = Append(enriched_providers,
                        enriched_config(idx + 1, version))
                /\ idx' = idx + 1
                /\ UNCHANGED <<cfg_pc, latest_calls>>
    /\ UNCHANGED <<providers, config_result, dispatched>>
    /\ UNCHANGED <<retVars, pipeVars, cmpVars, lstVars, caVars,
                   storeVars, hdlVars>>

\* the loop is through: return {'statusCode': 200, 'providers': ...}
ReturnConfig ==
    /\ cfg_pc = "loop"
    /\ idx = Len(providers)
    /\ config_result' = <<enriched_providers>>
    /\ cfg_pc' = "returned"
    /\ UNCHANGED <<providers, idx, enriched_providers, latest_calls, dispatched>>
    /\ UNCHANGED <<retVars, pipeVars, cmpVars, lstVars, caVars,
                   storeVars, hdlVars>>

\* the orchestration hands one returned entry to the version probe and the
\* sync pipeline
Dispatch(p) ==
    /\ cfg_pc = "returned"
    /\ dispatched = 0
    /\ ppc[p] = "off"
    /\ mode[p] # "off"
    /\ \E i \in 1 .. Len(config_result[1]) : dispatched' = i
    /\ ppc' = [ppc EXCEPT ![p] = "check_version"]
    /\ UNCHANGED <<providers, idx, enriched_providers, latest_calls,
                   config_result, cfg_pc>>
    /\ UNCHANGED <<platforms, operator_deletes,
                   reg_provider, reg_version,
                   reg_platforms, reg_uploads,
                   s3_objects, s3_manifest, mode, fi, download_info, files,
                   shasums_downloaded, sig_downloaded, fetch_calls, fetch_result,
                   manifest, provider_exists, bi, platforms_uploaded, calls, result>>
    /\ UNCHANGED <<retVars, cmpVars, lstVars, caVars,
                   storeVars, hdlVars>>

\* ------------------------------------------------------ the CA bundle
\* check_version.py and upload_from_s3.py each hold a global _ca_bundle_path
\* and the same get_ca_bundle_path, called ahead of every registry request
CaModules == {"check_version", "upload_from_s3"}

\* what a call that reaches the try block can meet: the secret is retrieved
\* and written to a temporary file, get_secret raises, or the write raises
\* after mkstemp made the file
retrieval_outcomes == {"written", "secret_error", "write_error"}

ca_call(retrieved, outcome, returned, path_after) ==
    [retrieved |-> retrieved, outcome |-> outcome, returned |-> returned,
     path_after |-> path_after]

\* one call of get_ca_bundle_path
GetCaBundlePath ==
    /\ ca_module \in CaModules
    /\ Len(ca_calls) < MaxCaCalls
    /\ IF ca_bundle_path # <<>>
       THEN /\ ca_calls' = Append(ca_calls,
                   ca_call(FALSE, "cached", ca_bundle_path, ca_bundle_path))
            /\ UNCHANGED <<ca_bundle_path, temp_files>>
       ELSE IF ca_secret_name = <<>>
       THEN /\ ca_calls' = Append(ca_calls, ca_call(FALSE, "unset", <<>>, <<>>))
            /\ UNCHANGED <<ca_bundle_path, temp_files>>
       ELSE \E outcome \in retrieval_outcomes :
              LET path == <<temp_files + 1>>
              IN  /\ temp_files' = IF outcome = "secret_error" THEN temp_files
                                   ELSE temp_files + 1
                  /\ ca_bundle_path' = IF outcome = "written" THEN path
                                       ELSE ca_bundle_path
                  /\ ca_calls' = Append(ca_calls,
                         IF outcome = "written"
                         THEN ca_call(TRUE, outcome, path, path)
                         ELSE ca_call(TRUE, outcome, <<>>, <<>>))
    /\ UNCHANGED <<ca_module, ca_secret_name>>
    /\ UNCHANGED <<retVars, pipeVars, cmpVars, lstVars, cfgVars,
                   storeVars, hdlVars>>

\* ------------------------------------------------- the intermediate store
\* download_to_s3 builds its keys as text; the texts are kept character by
\* character so that two keys are equal exactly when the strings are
T_tmp == <<"t", "m", "p", "/">>
T_slash == <<"/">>
T_underscore == <<"_">>
T_terraform_provider ==
    <<"t", "e", "r", "r", "a", "f", "o", "r", "m", "-",
      "p", "r", "o", "v", "i", "d", "e", "r", "-">>
T_zip == <<".", "z", "i", "p">>
T_SHA256SUMS == <<"S", "H", "A", "2", "5", "6", "S", "U", "M", "S">>
T_sig == <<".", "s", "i", "g">>
T_manifest_json ==
    <<"m", "a", "n", "i", "f", "e", "s", "t", ".", "j", "s", "o", "n">>

FetchRuns == {"f1", "f2"}

\* source namespaces, provider names and versions of the events; the names
\* and versions are chosen so that name and version written one behind the
\* other coincide for two different pairs ("a" "11" and "a1" "1")
NamespacePool == {<<"h", "c">>, <<"a", "c", "m", "e">>}
ProviderNamePool == {<<"a">>, <<"a", "1">>}
FetchVersionPool == {<<"1">>, <<"1", "1">>}
FetchPlatformPool ==
    {[os |-> <<"l", "i", "n", "u", "x">>, arch |-> <<"a", "m", "d", "6", "4">>],
     [os |-> <<"l", "i", "n", "u", "x">>, arch |-> <<"a", "r", "m", "6", "4">>]}

\* a prefix that names the source namespace as well
s3_prefix_with_namespace(namespace, provider, version) ==
    T_tmp \o namespace \o T_slash \o provider \o T_slash \o version \o T_slash

\* s3_prefix = f"tmp/{provider}/{version}/", where namespace is at hand
s3_prefix(namespace, provider, version) ==
    T_tmp \o provider \o T_slash \o version \o T_slash

\* f"{s3_prefix}terraform-provider-{provider}_{version}_{os_name}_{arch}.zip"
binary_key(prefix, provider, version, platform) ==
    prefix \o T_terraform_provider \o provider \o T_underscore \o version
           \o T_underscore \o platform.os \o T_underscore \o platform.arch \o T_zip

\* f"{s3_prefix}terraform-provider-{provider}_{version}_SHA256SUMS"
shasums_key(prefix, provider, version) ==
    prefix \o T_terraform_provider \o provider \o T_underscore \o version
           \o T_underscore \o T_SHA256SUMS

\* f"{s3_prefix}terraform-provider-{provider}_{version}_SHA256SUMS.sig"
signature_key(prefix, provider, version) ==
    shasums_key(prefix, provider, version) \o T_sig

\* f"{s3_prefix}manifest.json"
manifest_key(prefix) == prefix \o T_manifest_json

\* the keys a fetch run writes when nothing fails, in the order it writes
\* them: each binary, behind the first binary the checksum manifest and the
\* signature, at the end manifest.json
fetch_keys(e) ==
    LET prefix == s3_prefix(e.namespace, e.provider, e.version)
        binary(i) == binary_key(prefix, e.provider, e.version, e.platforms[i])
    IN  IF e.platforms = <<>> THEN <<manifest_key(prefix)>>
        ELSE <<binary(1), shasums_key(prefix, e.provider, e.version),
               signature_key(prefix, e.provider, e.version)>>
                 \o [i \in 1 .. Len(e.platforms) - 1 |-> binary(i + 1)]
                 \o <<manifest_key(prefix)>>

\* upload_fileobj / put_object: the object under the key is replaced
put_object(objects, key, f, namespace) ==
    {o \in objects : o.key # key} \cup {[key |-> key, by |-> f, namespace |-> namespace]}

\* one write of a fetch run: download_to_s3(...) for a binary, the checksum
\* manifest or the signature, or the put_object of manifest.json
StorePut(f) ==
    /\ fetch_pc[f] = "put"
    /\ LET keys == fetch_keys(fetch_event[f])
           key == keys[Len(store_puts[f]) + 1]
       IN  /\ store_objects' = put_object(store_objects, key, f, fetch_event[f].namespace)
           /\ store_puts' = [store_puts EXCEPT ![f] = Append(@, key)]
           /\ fetch_pc' = [fetch_pc EXCEPT ![f] =
                 IF Len(store_puts[f]) + 1 = Len(keys) THEN "done" ELSE "put"]
    /\ UNCHANGED fetch_event
    /\ UNCHANGED <<retVars, pipeVars, cmpVars, lstVars, cfgVars, caVars, hdlVars>>

\* a descriptor lookup or a download raising: the handler re-raises
FetchRaise(f) ==
    /\ fetch_pc[f] = "put"
    /\ fetch_pc' = [fetch_pc EXCEPT ![f] = "failed"]
    /\ UNCHANGED <<fetch_event, store_objects, store_puts>>
    /\ UNCHANGED <<retVars, pipeVars, cmpVars, lstVars, cfgVars, caVars, hdlVars>>

\* ------------------------------------------------------ the specifications
\* no run has started
RunsIdle ==
    /\ url = [r \in RetRuns |-> 1]
    /\ versions = [r \in RetRuns |-> <<>>]
    /\ kept_versions = [r \in RetRuns |-> <<>>]
    /\ versions_to_delete = [r \in RetRuns |-> <<>>]
    /\ deleted_versions = [r \in RetRuns |-> <<>>]
    /\ pos = [r \in RetRuns |-> 1]
    /\ delete_calls = [r \in RetRuns |-> <<>>]
    /\ page_calls = [r \in RetRuns |-> <<>>]
    /\ removals = 0

\* the registry's page chains end: no page links back
RetentionIdle ==
    /\ RunsIdle
    /\ back_link = 0

\* no comparison is under way
ComparatorIdle ==
    /\ components_a = <<>>
    /\ components_b = <<>>
    /\ version_a = <<>>
    /\ version_b = <<>>
    /\ key_a = <<>>
    /\ key_b = <<>>
    /\ comparison = "none"
    /\ cpc = "off"

PipelineIdle ==
    /\ operator_deletes = 0
    /\ s3_objects = {}
    /\ s3_manifest = <<>>
    /\ fi = [p \in PipeRuns |-> 0]
    /\ download_info = [p \in PipeRuns |-> NoDescriptor]
    /\ files = [p \in PipeRuns |-> NoFiles]
    /\ shasums_downloaded = [p \in PipeRuns |-> FALSE]
    /\ sig_downloaded = [p \in PipeRuns |-> FALSE]
    /\ fetch_calls = [p \in PipeRuns |-> <<>>]
    /\ fetch_result = [p \in PipeRuns |-> <<>>]
    /\ manifest = [p \in PipeRuns |-> <<>>]
    /\ provider_exists = [p \in PipeRuns |-> <<>>]
    /\ bi = [p \in PipeRuns |-> 0]
    /\ platforms_uploaded = [p \in PipeRuns |-> 0]
    /\ calls = [p \in PipeRuns |-> <<>>]
    /\ result = [p \in PipeRuns |-> <<>>]

ListerIdle ==
    /\ lister = "off"
    /\ listing = <<>>
    /\ list_url = 0
    /\ list_items = <<>>
    /\ page_fetches = <<>>
    /\ list_result = <<>>
    /\ lpc = "off"

ConfigIdle ==
    /\ providers = <<>>
    /\ idx = 0
    /\ enriched_providers = <<>>
    /\ latest_calls = <<>>
    /\ config_result = <<>>
    /\ dispatched = 0
    /\ cfg_pc = "off"

CaBundleIdle ==
    /\ ca_module = "off"
    /\ ca_secret_name = <<>>
    /\ ca_bundle_path = <<>>
    /\ temp_files = 0
    /\ ca_calls = <<>>

\* no fetch run writes to the intermediate store
StoreIdle ==
    /\ fetch_event = <<>>
    /\ store_objects = {}
    /\ store_puts = <<>>
    /\ fetch_pc = <<>>

\* no all-providers cleanup
HandlerIdle ==
    /\ all_providers = <<>>
    /\ provider_idx = 0
    /\ results = <<>>
    /\ summary = <<>>
    /\ hpc = "off"

OthersIdle == StoreIdle /\ HandlerIdle

AuxIdle == ListerIdle /\ ConfigIdle /\ CaBundleIdle /\ OthersIdle

\* a version the registry already holds is a complete release
ExistingRelease ==
    /\ reg_platforms = PlatformPool
    /\ reg_uploads = PlatformPool \cup {"SHA256SUMS", "SHA256SUMS.sig"}

NoRelease ==
    /\ reg_platforms = {}
    /\ reg_uploads = {}

\* one retention run on one provider: any listing drawn from the pool with any
\* keep count, and the twelve-version scenario under the default keep count
\* no retention run
RetentionOff ==
    /\ RetentionIdle
    /\ rpc = [r \in RetRuns |-> "off"]
    /\ registry_order = <<>>
    /\ start_order = <<>>
    /\ start_newest = {}
    /\ keep_count = DefaultKeepCount
    /\ dry_run = FALSE

\* no sync run
PipelineOff ==
    /\ PipelineIdle
    /\ platforms = <<>>
    /\ reg_provider = TRUE
    /\ reg_version = FALSE
    /\ NoRelease
    /\ mode = [p \in PipeRuns |-> "off"]
    /\ ppc = [p \in PipeRuns |-> "off"]

RetentionInit ==
    /\ RetentionIdle
    /\ rpc = [r \in RetRuns |-> IF r = "r1" THEN "list" ELSE "off"]
    /\ dry_run \in BOOLEAN
    /\ \/ /\ registry_order \in NoDupSeqs(VersionPool, MaxVersions)
          /\ keep_count \in 0 .. MaxKeep
       \/ /\ registry_order \in {ScenarioAscending, ScenarioDescending}
          /\ keep_count = DefaultKeepCount
    /\ start_order = <<>>
    /\ start_newest = {}
    /\ PipelineIdle
    /\ platforms = <<>>
    /\ reg_provider = TRUE
    /\ reg_version = FALSE
    /\ NoRelease
    /\ mode = [p \in PipeRuns |-> "off"]
    /\ ppc = [p \in PipeRuns |-> "off"]
    /\ ComparatorIdle
    /\ AuxIdle

RetentionNext ==
    \/ \E r \in RetRuns : ListPage(r)
    \/ \E r \in RetRuns : Plan(r)
    \/ \E r \in RetRuns : DeleteStep(r)
    \/ ExternalRemove

RetentionSpec == RetentionInit /\ [][RetentionNext]_vars

\* one sync run for one provider version, in either pipeline, against a
\* registry that holds neither provider nor version, the provider alone, or both
PipelineInit ==
    /\ PipelineIdle
    /\ platforms \in NoDupSeqs(PlatformPool, MaxPlatforms)
    /\ \/ reg_provider = FALSE /\ reg_version = FALSE /\ NoRelease
       \/ reg_provider = TRUE /\ reg_version = FALSE /\ NoRelease
       \/ reg_provider = TRUE /\ reg_version = TRUE /\ ExistingRelease
    /\ \E m \in {"single", "split"} :
          mode = [p \in PipeRuns |-> IF p = "p1" THEN m ELSE "off"]
    /\ ppc = [p \in PipeRuns |-> IF p = "p1" THEN "start" ELSE "off"]
    /\ RetentionIdle
    /\ rpc = [r \in RetRuns |-> "off"]
    /\ registry_order = <<>>
    /\ start_order = <<>>
    /\ start_newest = {}
    /\ keep_count = DefaultKeepCount
    /\ dry_run = FALSE
    /\ ComparatorIdle
    /\ AuxIdle

PipelineNext ==
    \/ \E p \in PipeRuns : PStart(p)
    \/ \E p \in PipeRuns : Lookup(p)
    \/ \E p \in PipeRuns : Binary(p)
    \/ \E p \in PipeRuns : Shasums(p)
    \/ \E p \in PipeRuns : Signature(p)
    \/ \E p \in PipeRuns : ReturnFiles(p)
    \/ \E p \in PipeRuns : PutManifest(p)
    \/ \E p \in PipeRuns : ReadManifest(p)
    \/ \E p \in PipeRuns : CheckProvider(p)
    \/ \E p \in PipeRuns : CreateProvider(p)
    \/ \E p \in PipeRuns : CreateVersion(p)
    \/ \E p \in PipeRuns : S3Shasums(p)
    \/ \E p \in PipeRuns : S3Signature(p)
    \/ \E p \in PipeRuns : UploadShasums(p)
    \/ \E p \in PipeRuns : UploadSignature(p)
    \/ \E p \in PipeRuns : S3Binary(p)
    \/ \E p \in PipeRuns : CreatePlatform(p)
    \/ \E p \in PipeRuns : UploadBinary(p)

PipelineSpec == PipelineInit /\ [][PipelineNext]_vars

\* the versions two overlapping runs are tried on: two that tie, a two-component
\* one and an older one
PairVersionPool == {V_1_9_0, V_1_10_0, V_v1_10_0, V_1_10}

\* two retention runs on the same provider with the same keep count, started
\* together (two scheduled invocations that overlap); nobody else touches the
\* registry
RetentionPairInit ==
    /\ RetentionIdle
    /\ rpc = [r \in RetRuns |-> "list"]
    /\ dry_run \in BOOLEAN
    /\ registry_order \in NoDupSeqs(PairVersionPool, MaxVersions)
    /\ keep_count \in 0 .. MaxKeep
    /\ start_order = registry_order
    /\ start_newest = newest_of(registry_order, keep_count)
    /\ PipelineIdle
    /\ platforms = <<>>
    /\ reg_provider = TRUE
    /\ reg_version = FALSE
    /\ NoRelease
    /\ mode = [p \in PipeRuns |-> "off"]
    /\ ppc = [p \in PipeRuns |-> "off"]
    /\ ComparatorIdle
    /\ AuxIdle

RetentionPairNext ==
    \/ \E r \in RetRuns : ListPage(r)
    \/ \E r \in RetRuns : Plan(r)
    \/ \E r \in RetRuns : DeleteStep(r)

RetentionPairSpec == RetentionPairInit /\ [][RetentionPairNext]_vars

\* the platforms two overlapping sync runs are asked for
PairPlatformPool == {"linux_amd64"}

\* two sync runs for the same organization, provider and version, started
\* together (two executions that overlap), each probing the version first
PublishPairInit ==
    /\ PipelineIdle
    /\ platforms \in NoDupSeqs(PairPlatformPool, MaxPlatforms)
    /\ reg_provider \in BOOLEAN
    /\ reg_version = FALSE
    /\ NoRelease
    /\ \E m \in {"single", "split"} : mode = [p \in PipeRuns |-> m]
    /\ ppc = [p \in PipeRuns |-> "check_version"]
    /\ RetentionIdle
    /\ rpc = [r \in RetRuns |-> "off"]
    /\ registry_order = <<>>
    /\ start_order = <<>>
    /\ start_newest = {}
    /\ keep_count = DefaultKeepCount
    /\ dry_run = FALSE
    /\ ComparatorIdle
    /\ AuxIdle

PublishPairNext ==
    \/ \E p \in PipeRuns : CheckVersion(p)
    \/ PipelineNext

PublishPairSpec == PublishPairInit /\ [][PublishPairNext]_vars

\* every handler runs to its return or to the exception it re-raises (each
\* request carries a timeout), so a run that can take a step takes one
PublishPairFairSpec == PublishPairSpec /\ WF_vars(PublishPairNext)

\* the same provider version is submitted again after a run of it failed
Rerun(p) ==
    /\ ppc[p] = "off"
    /\ \E q \in PipeRuns \ {p} : ppc[q] = "failed"
    /\ ppc' = [ppc EXCEPT ![p] = "start"]
    /\ UNCHANGED <<platforms, operator_deletes,
                   reg_provider, reg_version,
                   reg_platforms, reg_uploads,
                   s3_objects, s3_manifest, mode, fi, download_info, files,
                   shasums_downloaded, sig_downloaded, fetch_calls, fetch_result,
                   manifest, provider_exists, bi, platforms_uploaded, calls, result>>
    /\ UNCHANGED <<retVars, cmpVars, auxVars>>

\* an operator removes the version resource a failed run left behind, with its
\* platforms and uploads, while no run is working on it
OperatorDeleteVersion ==
    /\ operator_deletes < MaxOperatorDeletes
    /\ reg_version
    /\ \A p \in PipeRuns : ppc[p] \in {"off", "failed"}
    /\ \E p \in PipeRuns : \E c \in 1 .. Len(calls[p]) :
          calls[p][c].op = "create_version" /\ calls[p][c].ok
    /\ operator_deletes' = operator_deletes + 1
    /\ reg_version' = FALSE
    /\ reg_platforms' = {}
    /\ reg_uploads' = {}
    /\ UNCHANGED <<platforms, reg_provider,
                   s3_objects, s3_manifest, mode, ppc, fi, download_info, files,
                   shasums_downloaded, sig_downloaded, fetch_calls, fetch_result,
                   manifest, provider_exists, bi, platforms_uploaded, calls, result>>
    /\ UNCHANGED <<retVars, cmpVars, auxVars>>

\* one sync run, and a second run of the same provider version after the first
\* failed
RerunInit ==
    /\ PipelineIdle
    /\ platforms \in NoDupSeqs(PairPlatformPool, MaxPlatforms)
    /\ reg_provider \in BOOLEAN
    /\ reg_version = FALSE
    /\ NoRelease
    /\ \E m \in {"single", "split"} : mode = [p \in PipeRuns |-> m]
    /\ ppc = [p \in PipeRuns |-> IF p = "p1" THEN "start" ELSE "off"]
    /\ RetentionIdle
    /\ rpc = [r \in RetRuns |-> "off"]
    /\ registry_order = <<>>
    /\ start_order = <<>>
    /\ start_newest = {}
    /\ keep_count = DefaultKeepCount
    /\ dry_run = FALSE
    /\ ComparatorIdle
    /\ AuxIdle

RerunNext ==
    \/ \E p \in PipeRuns : Rerun(p)
    \/ OperatorDeleteVersion
    \/ PipelineNext

RerunSpec == RerunInit /\ [][RerunNext]_vars

\* ------------------------------------------------------- the comparator
\* A version string is written from components: a non-negative integer in
\* decimal notation, or a word that is no integer literal.
IntComponent(n) == [int |-> <<n>>, word |-> <<>>]

WordComponent(w) == [int |-> <<>>, word |-> <<w>>]

component_text(c) == IF c.int # <<>> THEN decimal(c.int[1]) ELSE c.word[1]

\* ".".join(...)
RECURSIVE join_dot(_)
join_dot(cs) ==
    IF Len(cs) = 1 THEN component_text(cs[1])
    ELSE component_text(cs[1]) \o <<".">> \o join_dot(Tail(cs))

\* the components generated strings are written from
ComponentPool == {IntComponent(0), IntComponent(9), IntComponent(10),
                  WordComponent(<<"b">>)}

RECURSIVE ComponentSeqs(_)
ComponentSeqs(n) ==
    IF n = 1 THEN {<<c>> : c \in ComponentPool}
    ELSE LET shorter == ComponentSeqs(n - 1)
         IN  shorter \cup {Append(s, c) : s \in {t \in shorter : Len(t) = n - 1},
                                          c \in ComponentPool}

\* 2.9.0 and 2.10.0, 1.2 and 1.2.0, not-a-version, 1.0.0-beta
ExampleVersions ==
    {<<IntComponent(2), IntComponent(9), IntComponent(0)>>,
     <<IntComponent(2), IntComponent(10), IntComponent(0)>>,
     <<IntComponent(1), IntComponent(2)>>,
     <<IntComponent(1), IntComponent(2), IntComponent(0)>>,
     <<WordComponent(<<"n", "o", "t", "-", "a", "-", "v", "e", "r", "s", "i", "o", "n">>)>>,
     <<IntComponent(1), IntComponent(0),
       WordComponent(<<"0", "-", "b", "e", "t", "a">>)>>}

\* the order sorted() puts two keys in
compare(a, b) ==
    IF tuple_lt(a, b) THEN "less" ELSE IF tuple_lt(b, a) THEN "greater" ELSE "equal"

\* key=lambda v: parse_version(...) applied to both version strings
ParseVersions ==
    /\ cpc = "input"
    /\ key_a' = <<parse_version(version_a)>>
    /\ key_b' = <<parse_version(version_b)>>
    /\ cpc' = "parsed"
    /\ UNCHANGED <<components_a, components_b, version_a, version_b, comparison>>
    /\ UNCHANGED <<retVars, pipeVars, auxVars>>

\* sorted() comparing the two keys
CompareKeys ==
    /\ cpc = "parsed"
    /\ comparison' = compare(key_a[1], key_b[1])
    /\ cpc' = "compared"
    /\ UNCHANGED <<components_a, components_b, version_a, version_b, key_a, key_b>>
    /\ UNCHANGED <<retVars, pipeVars, auxVars>>

\* any two version strings: generated ones and the examples
ComparatorInit ==
    /\ \/ /\ components_a \in ComponentSeqs(MaxComponents)
          /\ components_b \in ComponentSeqs(MaxComponents) \cup ExampleVersions
       \/ /\ components_a \in ExampleVersions
          /\ components_b \in ComponentSeqs(MaxComponents) \cup ExampleVersions
    /\ version_a = join_dot(components_a)
    /\ version_b = join_dot(components_b)
    /\ key_a = <<>>
    /\ key_b = <<>>
    /\ comparison = "none"
    /\ cpc = "input"
    /\ AuxIdle
    /\ RetentionIdle
    /\ rpc = [r \in RetRuns |-> "off"]
    /\ registry_order = <<>>
    /\ start_order = <<>>
    /\ start_newest = {}
    /\ keep_count = DefaultKeepCount
    /\ dry_run = FALSE
    /\ PipelineIdle
    /\ platforms = <<>>
    /\ reg_provider = TRUE
    /\ reg_version = FALSE
    /\ NoRelease
    /\ mode = [p \in PipeRuns |-> "off"]
    /\ ppc = [p \in PipeRuns |-> "off"]

ComparatorNext ==
    \/ ParseVersions
    \/ CompareKeys

ComparatorSpec == ComparatorInit /\ [][ComparatorNext]_vars

\* ----------------------------------------------------- prefixed versions
\* the prefixes a version string may be written with
PrefixPool == {<<"v">>, <<"v", "v">>, <<"V">>,
               <<"r", "e", "l", "e", "a", "s", "e", "-">>}

\* a version string and the same string behind a prefix
PrefixInit ==
    /\ components_b \in ComponentSeqs(MaxComponents)
    /\ components_a = components_b
    /\ version_b = join_dot(components_b)
    /\ \E prefix \in PrefixPool : version_a = prefix \o version_b
    /\ key_a = <<>>
    /\ key_b = <<>>
    /\ comparison = "none"
    /\ cpc = "input"
    /\ RetentionOff
    /\ PipelineOff
    /\ AuxIdle

PrefixSpec == PrefixInit /\ [][ComparatorNext]_vars

\* ------------------------------------------------- the listers' runs
\* one lister walks one collection of the private registry
ListerInit ==
    /\ lister \in Listers
    /\ listing \in NoDupSeqs(ListedPool, MaxListed)
    /\ list_url = 1
    /\ list_items = <<>>
    /\ page_fetches = <<>>
    /\ list_result = <<>>
    /\ lpc = "loop"
    /\ RetentionOff
    /\ PipelineOff
    /\ ComparatorIdle
    /\ ConfigIdle
    /\ CaBundleIdle
    /\ OthersIdle

ListerNext == FetchPage

ListerSpec == ListerInit /\ [][ListerNext]_vars

\* --------------------------------------------- configuration documents
\* read_config walks a document; one returned entry is then synchronised
ConfigInit ==
    /\ providers \in ConfigDocs(MaxEntries)
    /\ idx = 0
    /\ enriched_providers = <<>>
    /\ latest_calls = <<>>
    /\ config_result = <<>>
    /\ dispatched = 0
    /\ cfg_pc = "loop"
    /\ PipelineIdle
    /\ platforms \in {<<pl>> : pl \in PairPlatformPool}
    /\ reg_provider = TRUE
    /\ reg_version = FALSE
    /\ NoRelease
    /\ \E m \in {"single", "split"} :
          mode = [p \in PipeRuns |-> IF p = "p1" THEN m ELSE "off"]
    /\ ppc = [p \in PipeRuns |-> "off"]
    /\ RetentionOff
    /\ ComparatorIdle
    /\ ListerIdle
    /\ CaBundleIdle
    /\ OthersIdle

ConfigNext ==
    \/ ValidateEntry
    \/ ReturnConfig
    \/ \E p \in PipeRuns : Dispatch(p)
    \/ \E p \in PipeRuns : CheckVersion(p)
    \/ PipelineNext

ConfigSpec == ConfigInit /\ [][ConfigNext]_vars

\* ------------------------------------------------------- a run of either
\* one sync run or one retention run, each from its own start
RunInit == PipelineInit \/ RetentionInit

RunNext == PipelineNext \/ RetentionNext

RunSpec == RunInit /\ [][RunNext]_vars

\* --------------------------------------------------- one warm process
\* the calls of get_ca_bundle_path one process makes, from a fresh global
CaBundleInit ==
    /\ ca_module \in CaModules
    /\ ca_secret_name \in {<<>>, <<"ca-bundle">>}
    /\ ca_bundle_path = <<>>
    /\ temp_files = 0
    /\ ca_calls = <<>>
    /\ RetentionOff
    /\ PipelineOff
    /\ ComparatorIdle
    /\ ListerIdle
    /\ ConfigIdle
    /\ OthersIdle

CaBundleNext == GetCaBundlePath

CaBundleSpec == CaBundleInit /\ [][CaBundleNext]_vars

\* ------------------------------------------------- retention: the claims
\* the run has passed the len(versions) <= keep_count test
Planned(r) == rpc[r] \in {"delete", "done"}

\* the versions the run sent a DELETE for, in call order
called_versions(r) == [c \in 1 .. Len(delete_calls[r]) |-> delete_calls[r][c].version]

\* C1: once a run has planned, its keep set holds exactly
\* min(keep_count, len(versions)) records, and every listed record is in
\* exactly one of the keep set and the set scheduled for deletion.
C1_KeepDeletePartition ==
    \A r \in RetRuns :
        Planned(r) =>
            /\ Len(kept_versions[r]) = Min(keep_count, Len(versions[r]))
            /\ \A v \in Range(versions[r]) \cup Range(kept_versions[r])
                          \cup Range(versions_to_delete[r]) :
                  Count(v, kept_versions[r] \o versions_to_delete[r])
                      = Count(v, versions[r])

\* a run that keeps some and schedules several of the listed versions
C1_Witness ==
    /\ rpc["r1"] = "delete"
    /\ Len(kept_versions["r1"]) >= 1
    /\ Len(versions_to_delete["r1"]) >= 2

\* C2: when more versions are listed than keep_count, no kept version has a
\* parsed key below that of a version scheduled for deletion; of the twelve
\* versions 1.0.0 .. 1.11.0 under keep_count 10, exactly 1.0.0 and 1.1.0 are
\* scheduled.
C2_KeepsNewest ==
    \A r \in RetRuns :
        (Planned(r) /\ Len(versions[r]) > keep_count) =>
            /\ \A i \in 1 .. Len(kept_versions[r]), j \in 1 .. Len(versions_to_delete[r]) :
                  ~key_lt(kept_versions[r][i], versions_to_delete[r][j])
            /\ (keep_count = 10 /\ Range(versions[r]) = Range(ScenarioAscending)) =>
                  /\ Range(versions_to_delete[r]) = {minor_version(0), minor_version(1)}
                  /\ Len(versions_to_delete[r]) = 2

\* the twelve-version scenario, listed oldest first, has been planned
C2_Witness ==
    /\ Planned("r1")
    /\ keep_count = 10
    /\ versions["r1"] = ScenarioAscending
    /\ Len(versions_to_delete["r1"]) = 2

\* C9: a version whose DELETE was answered 404 is in deleted_versions, and the
\* loop went on: while the loop runs every earlier scheduled version has had
\* its DELETE, and a run that saw a 404 ends done, having sent a DELETE for
\* every scheduled version.
C9_NotFoundCountsAsDeleted ==
    \A r \in RetRuns :
        \A c \in 1 .. Len(delete_calls[r]) :
            delete_calls[r][c].status = 404 =>
                /\ delete_calls[r][c].version \in Range(deleted_versions[r])
                /\ rpc[r] \in {"delete", "done"}
                /\ rpc[r] = "delete" => Len(delete_calls[r]) = pos[r] - 1
                /\ rpc[r] = "done" => called_versions(r) = versions_to_delete[r]

\* a finished run whose first DELETE was answered 404 and that sent another
C9_Witness ==
    /\ rpc["r1"] = "done"
    /\ Len(delete_calls["r1"]) >= 2
    /\ delete_calls["r1"][1].status = 404
    /\ delete_calls["r1"][1].version \in Range(deleted_versions["r1"])

\* C10: a DELETE that failed with anything but 404 leaves exactly its version
\* out of deleted_versions; the run does not fail, and it ends having sent a
\* DELETE for every scheduled version.
C10_FailedDeleteSkipsOneVersion ==
    \A r \in RetRuns :
        /\ \A c \in 1 .. Len(delete_calls[r]) :
              (delete_calls[r][c].status \in {204, 404})
                  <=> (delete_calls[r][c].version \in Range(deleted_versions[r]))
        /\ (\E c \in 1 .. Len(delete_calls[r]) :
                delete_calls[r][c].status \notin {204, 404}) =>
              /\ rpc[r] \in {"delete", "done"}
              /\ rpc[r] = "delete" =>
                    called_versions(r) = SubSeq(versions_to_delete[r], 1, pos[r] - 1)
              /\ rpc[r] = "done" => called_versions(r) = versions_to_delete[r]

\* a finished run whose first DELETE failed and whose second succeeded
C10_Witness ==
    /\ rpc["r1"] = "done"
    /\ Len(delete_calls["r1"]) >= 2
    /\ delete_calls["r1"][1].status \in {500, 0}
    /\ delete_calls["r1"][2].status = 204
    /\ deleted_versions["r1"] = <<delete_calls["r1"][2].version>>

\* C11: under dry_run a run sends no DELETE, reports the versions it has come
\* to in the order it scheduled them (all of them once it is done), and none of
\* its steps changes the registry's listing.
C11_DryRunLeavesRegistry ==
    /\ [](dry_run =>
            \A r \in RetRuns :
                /\ delete_calls[r] = <<>>
                /\ deleted_versions[r] = SubSeq(versions_to_delete[r], 1, pos[r] - 1)
                /\ rpc[r] = "done" => deleted_versions[r] = versions_to_delete[r])
    /\ [][(dry_run /\ removals' = removals) => registry_order' = registry_order]_vars

\* a dry run that reported several scheduled versions, all still in the registry
C11_Witness ==
    /\ dry_run
    /\ rpc["r1"] = "done"
    /\ Len(versions_to_delete["r1"]) >= 2
    /\ deleted_versions["r1"] = versions_to_delete["r1"]
    /\ Range(versions_to_delete["r1"]) \subseteq Range(registry_order)

\* C13: when two retention runs for the same provider and keep count overlap,
\* a run that has its listing never fails (a DELETE answered 404 because the
\* other run was first counts as deleted), and no run sends a DELETE for one of
\* the keep_count newest versions that existed at the start, so all of them
\* stay in the registry.
C13_OverlappingRunsKeepNewest ==
    /\ start_newest \subseteq Range(registry_order)
    /\ \A r \in RetRuns :
          /\ \A c \in 1 .. Len(delete_calls[r]) :
                /\ delete_calls[r][c].version \notin start_newest
                /\ delete_calls[r][c].status = 404 =>
                      delete_calls[r][c].version \in Range(deleted_versions[r])
          /\ rpc[r] = "failed" =>
                /\ delete_calls[r] = <<>>
                /\ versions_to_delete[r] = <<>>

\* both runs scheduled the same version, one deleted it and the other was
\* answered 404, and both ran to the end with the newest versions in place
C13_Witness ==
    /\ rpc["r1"] = "done"
    /\ rpc["r2"] = "done"
    /\ start_newest # {}
    /\ \E c \in 1 .. Len(delete_calls["r1"]) :
          \E d \in 1 .. Len(delete_calls["r2"]) :
              /\ delete_calls["r1"][c].version = delete_calls["r2"][d].version
              /\ delete_calls["r1"][c].status = 204
              /\ delete_calls["r2"][d].status = 404

\* positions i < j of s never hold an older version before a newer one
newest_first(s) ==
    \A i \in 1 .. Len(s), j \in 1 .. Len(s) : i < j => ~key_lt(s[i], s[j])

\* C21: the kept versions a run reports are ordered newest first by parsed
\* key, for every listing order and every keep_count, also when the listing
\* has at most keep_count versions and nothing is deleted.
C21_KeptNewestFirst ==
    \A r \in RetRuns : Planned(r) => newest_first(kept_versions[r])

\* a run that kept its whole listing, which held an older version first
C21_Witness ==
    \E r \in RetRuns :
        /\ Planned(r)
        /\ Len(versions[r]) >= 2
        /\ Len(versions[r]) <= keep_count
        /\ key_lt(versions[r][1], versions[r][2])

\* the place of version v in the sequence s (s has no duplicates)
place_of(s, v) == CHOOSE i \in 1 .. Len(s) : s[i] = v

\* the plan of run r read front to back: the keep set, then the delete set
plan_order(r) == kept_versions[r] \o versions_to_delete[r]

\* two listed versions whose parsed keys are equal
tied(a, b) == a # b /\ ~key_lt(a, b) /\ ~key_lt(b, a)

\* C22: versions whose parsed keys are equal keep their listing order inside
\* the keep set and inside the delete set, and when the keep boundary falls
\* between them the earlier listed one is kept (stable descending sort). The
\* plan is read where it has just been made; the delete loop leaves it alone.
C22_TiesKeepListingOrder ==
    \A r \in RetRuns :
        Planned(r) /\ pos[r] = 1 =>
            \A i \in 1 .. Len(versions[r]), j \in 1 .. Len(versions[r]) :
                i < j /\ tied(versions[r][i], versions[r][j]) =>
                    place_of(plan_order(r), versions[r][i])
                        < place_of(plan_order(r), versions[r][j])

\* the keep boundary fell between two tied versions
C22_Witness ==
    \E r \in RetRuns :
        /\ Planned(r)
        /\ pos[r] = 1
        /\ keep_count >= 1
        /\ Len(versions[r]) > keep_count
        /\ tied(kept_versions[r][keep_count], versions_to_delete[r][1])

\* -------------------------------------------------- pipeline: the claims
\* where in a run's calls an operation occurs
call_places(p, op) == {c \in 1 .. Len(calls[p]) : calls[p][c].op = op}

fetch_places(p, op) == {c \in 1 .. Len(fetch_calls[p]) : fetch_calls[p][c].op = op}

\* a run's calls as (operation, argument) pairs
call_ops(p) == [c \in 1 .. Len(calls[p]) |-> <<calls[p][c].op, calls[p][c].arg>>]

RECURSIVE platform_calls(_)
platform_calls(bs) ==
    IF bs = <<>> THEN <<>>
    ELSE <<<<"create_platform", Head(bs)>>, <<"upload_binary", Head(bs)>>>>
             \o platform_calls(Tail(bs))

\* the order the protocol prescribes for a manifest's binaries
expected_calls(created, bs) ==
    <<<<"check_provider", "">>>>
        \o (IF created THEN <<<<"create_provider", "">>>> ELSE <<>>)
        \o <<<<"create_version", "">>, <<"upload_shasums", "">>,
             <<"upload_signature", "">>>>
        \o platform_calls(bs)

\* the fetch of run p met a failure: a call that failed, or a descriptor
\* without download_url
fetch_failed_at(p, c) ==
    \/ ~fetch_calls[p][c].ok
    \/ fetch_calls[p][c].op = "lookup" /\ ~fetch_calls[p][c].info.download_url

\* C3: a run whose probe reported the provider absent calls create-provider
\* exactly once, before any create-version; a run whose probe reported it
\* present never calls create-provider.
C3_CreateProviderIffAbsent ==
    \A p \in PipeRuns :
        /\ provider_exists[p] = <<>> =>
              call_places(p, "create_provider") \cup call_places(p, "create_version") = {}
        /\ provider_exists[p] = <<TRUE>> => call_places(p, "create_provider") = {}
        /\ provider_exists[p] = <<FALSE>> =>
              /\ Cardinality(call_places(p, "create_provider")) <= 1
              /\ ppc[p] # "create_provider" =>
                    Cardinality(call_places(p, "create_provider")) = 1
              /\ \A c \in call_places(p, "create_provider"),
                    v \in call_places(p, "create_version") : c < v

\* a finished run that found the provider absent, created it, then the version
C3_Witness ==
    /\ ppc["p1"] = "done"
    /\ provider_exists["p1"] = <<FALSE>>
    /\ call_places("p1", "create_provider") = {2}
    /\ call_places("p1", "create_version") = {3}

\* C4: a run that reaches create-version while the registry holds the version
\* gets a failure, ends failed, and changes neither the platforms nor the
\* uploads of the release; the refused create-version is the run's last call.
C4_ExistingVersionFailsPublish ==
    /\ [](\A p \in PipeRuns : \A c \in call_places(p, "create_version") :
              calls[p][c].status = 422 =>
                  /\ c = Len(calls[p])
                  /\ ppc[p] = "failed"
                  /\ result[p] = <<>>)
    /\ [][\A p \in PipeRuns :
              (ppc[p] = "create_version" /\ reg_version /\ calls'[p] # calls[p]) =>
                  /\ ppc'[p] = "failed"
                  /\ ~calls'[p][Len(calls'[p])].ok
                  /\ reg_platforms' = reg_platforms
                  /\ reg_uploads' = reg_uploads]_vars

\* a failed run whose create-version was refused for the existing version
C4_Witness ==
    /\ ppc["p1"] = "failed"
    /\ calls["p1"] # <<>>
    /\ calls["p1"][Len(calls["p1"])].op = "create_version"
    /\ calls["p1"][Len(calls["p1"])].status = 422
    /\ reg_version
    /\ Len(platforms) >= 1

\* C5: a run's registry calls are a prefix of: probe, create-provider when
\* the probe said absent, create-version, SHA256SUMS upload, signature upload,
\* then create-platform and binary upload for each binary in manifest order;
\* every call but the last has succeeded, and a finished run has made them all.
C5_CallOrder ==
    \A p \in PipeRuns :
        calls[p] # <<>> =>
            LET e == expected_calls(provider_exists[p] = <<FALSE>>,
                                    manifest[p][1].binaries)
            IN  /\ Len(calls[p]) <= Len(e)
                /\ call_ops(p) = SubSeq(e, 1, Len(calls[p]))
                /\ \A c \in 1 .. Len(calls[p]) - 1 : calls[p][c].ok
                /\ ppc[p] = "done" =>
                      /\ Len(calls[p]) = Len(e)
                      /\ calls[p][Len(calls[p])].ok

\* a finished split run that created the provider and published two or more
\* binaries
C5_Witness ==
    /\ ppc["p1"] = "done"
    /\ mode["p1"] = "split"
    /\ provider_exists["p1"] = <<FALSE>>
    /\ Len(manifest["p1"][1].binaries) >= 2
    /\ Len(calls["p1"]) = 5 + 2 * Len(manifest["p1"][1].binaries)

\* C6: one fetch downloads the checksum manifest at most once and the
\* signature at most once.
C6_SharedArtifactsAtMostOnce ==
    \A p \in PipeRuns :
        /\ Cardinality(fetch_places(p, "shasums")) <= 1
        /\ Cardinality(fetch_places(p, "signature")) <= 1

\* a fetch returned after two or more descriptors carried both URLs
C6_Witness ==
    /\ fetch_result["p1"] # <<>>
    /\ Cardinality({c \in fetch_places("p1", "lookup") :
            /\ fetch_calls["p1"][c].info.shasums_url
            /\ fetch_calls["p1"][c].info.shasums_signature_url}) >= 2
    /\ Cardinality(fetch_places("p1", "shasums")) = 1
    /\ Cardinality(fetch_places("p1", "signature")) = 1

\* C7: the first failure of a fetch is its last call: the run has failed, no
\* files were returned or handed to the publisher; files are returned, and
\* manifest.json is written, only with a binary for every requested platform.
C7_FetchAllOrNothing ==
    /\ \A p \in PipeRuns :
          /\ \A c \in 1 .. Len(fetch_calls[p]) :
                fetch_failed_at(p, c) =>
                    /\ c = Len(fetch_calls[p])
                    /\ ppc[p] = "failed"
                    /\ fetch_result[p] = <<>>
                    /\ manifest[p] = <<>>
          /\ fetch_result[p] # <<>> => fetch_result[p][1].binaries = platforms
    /\ s3_manifest # <<>> => s3_manifest[1].binaries = platforms

\* a split fetch that stored a binary and then failed on a later platform
C7_Witness ==
    /\ mode["p1"] = "split"
    /\ ppc["p1"] = "failed"
    /\ Len(fetch_calls["p1"]) >= 3
    /\ ~fetch_calls["p1"][Len(fetch_calls["p1"])].ok
    /\ fetch_calls["p1"][Len(fetch_calls["p1"])].platform # platforms[1]
    /\ s3_objects # {}
    /\ s3_manifest = <<>>

\* C8: in the single process, a run whose fetch met a failure has made no
\* publisher call: no probe, no create, no upload.
C8_FetchFailureNeverPublishes ==
    \A p \in PipeRuns :
        (mode[p] = "single" /\ \E c \in 1 .. Len(fetch_calls[p]) : fetch_failed_at(p, c)) =>
            /\ calls[p] = <<>>
            /\ provider_exists[p] = <<>>
            /\ result[p] = <<>>

\* a single-process run that failed on the lookup of its second platform
C8_Witness ==
    /\ mode["p1"] = "single"
    /\ ppc["p1"] = "failed"
    /\ Len(fetch_calls["p1"]) >= 2
    /\ fetch_calls["p1"][Len(fetch_calls["p1"])].op = "lookup"
    /\ ~fetch_calls["p1"][Len(fetch_calls["p1"])].ok
    /\ calls["p1"] = <<>>

\* C17: a run has a result only when it is done and every call of its fetch and
\* of its publish succeeded; the count it returns is the number of binaries in
\* the manifest, which is the number of platforms it created and the number of
\* binaries it uploaded. A run that is done has a result.
C17_ResultCountsPlatforms ==
    \A p \in PipeRuns :
        /\ ppc[p] = "done" => result[p] # <<>>
        /\ result[p] # <<>> =>
              /\ ppc[p] = "done"
              /\ \A c \in 1 .. Len(calls[p]) : calls[p][c].ok
              /\ \A c \in 1 .. Len(fetch_calls[p]) : fetch_calls[p][c].ok
              /\ result[p][1] = Len(manifest[p][1].binaries)
              /\ result[p][1] = Len(platforms)
              /\ result[p][1] = Cardinality(call_places(p, "create_platform"))
              /\ result[p][1] = Cardinality(call_places(p, "upload_binary"))
              /\ Range(manifest[p][1].binaries) \subseteq reg_platforms
              /\ Range(manifest[p][1].binaries) \subseteq reg_uploads

\* a run of three binaries returned three
C17_Witness ==
    /\ ppc["p1"] = "done"
    /\ Len(manifest["p1"][1].binaries) = 3
    /\ result["p1"] = <<3>>

\* the lookups of run p that were answered with a descriptor carrying field f
lookups_with(p, f) ==
    {c \in fetch_places(p, "lookup") :
        fetch_calls[p][c].ok /\ fetch_calls[p][c].info[f]}

\* the first of a non-empty set of places
first_place(places) == CHOOSE c \in places : \A d \in places : c <= d

\* the shared artifact `op`, named by descriptor field f, was fetched only in
\* the turn of the first platform whose descriptor carried f, and only once
fetched_at_first(p, op, f) ==
    /\ Cardinality(fetch_places(p, op)) <= 1
    /\ \A c \in fetch_places(p, op) :
           /\ lookups_with(p, f) # {}
           /\ first_place(lookups_with(p, f)) < c
           /\ fetch_calls[p][c].platform =
                  fetch_calls[p][first_place(lookups_with(p, f))].platform
           /\ \A d \in fetch_places(p, "lookup") :
                  d < c => d <= first_place(lookups_with(p, f))

\* C27: the files a fetch returns reference the checksum manifest exactly when
\* some requested platform's descriptor carried a shasums_url, and it was
\* fetched once, in the turn of the first such platform, whichever place that
\* platform has in the request; the same holds for the signature and
\* shasums_signature_url, whatever the descriptors say about the checksums.
C27_SharedArtifactsFromFirstCarrier ==
    \A p \in PipeRuns :
        /\ fetched_at_first(p, "shasums", "shasums_url")
        /\ fetched_at_first(p, "signature", "shasums_signature_url")
        /\ fetch_result[p] # <<>> =>
               /\ fetch_result[p][1].shasums <=> lookups_with(p, "shasums_url") # {}
               /\ fetch_result[p][1].signature
                      <=> lookups_with(p, "shasums_signature_url") # {}
               /\ fetch_result[p][1].shasums
                      <=> \E c \in fetch_places(p, "shasums") : fetch_calls[p][c].ok
               /\ fetch_result[p][1].signature
                      <=> \E c \in fetch_places(p, "signature") : fetch_calls[p][c].ok

\* the first descriptor carried neither URL, the second only the signature's,
\* the third both: the signature came with the second platform, the checksums
\* with the third
C27_Witness ==
    /\ fetch_result["p1"] # <<>>
    /\ Len(platforms) = 3
    /\ lookups_with("p1", "shasums_url") = {c \in fetch_places("p1", "lookup") :
                                               fetch_calls["p1"][c].platform = platforms[3]}
    /\ Cardinality(lookups_with("p1", "shasums_signature_url")) = 2
    /\ \E c \in fetch_places("p1", "signature") :
           fetch_calls["p1"][c].platform = platforms[2]
    /\ \E c \in fetch_places("p1", "shasums") :
           fetch_calls["p1"][c].platform = platforms[3]
    /\ fetch_result["p1"][1].shasums
    /\ fetch_result["p1"][1].signature

\* ---------------------------------------------- overlapping sync runs
\* the run's create-version was answered with the new version resource
created_version(p) ==
    \E c \in call_places(p, "create_version") : calls[p][c].ok

\* the run has entered upload_to_hcp
publishing(p) == call_places(p, "check_provider") # {}

\* the calls that follow create-version in the protocol
after_version_ops == {"upload_shasums", "upload_signature", "create_platform",
                      "upload_binary"}

\* the run is over: result returned, exception raised, or skipped by the probe
ended(p) == ppc[p] \in {"done", "failed", "skipped"}

\* C12: of two overlapping sync runs for the same organization, provider and
\* version at most one has its create-version accepted; a run whose
\* create-version was not accepted makes no platform and uploads nothing, and,
\* having entered the publisher, ends failed; both runs come to an end.
C12_OneRunPublishes ==
    /\ [](/\ Cardinality({p \in PipeRuns : created_version(p)}) <= 1
          /\ \A p \in PipeRuns :
                ~created_version(p) =>
                    /\ \A c \in 1 .. Len(calls[p]) : calls[p][c].op \notin after_version_ops
                    /\ result[p] = <<>>
                    /\ ppc[p] # "done"
                    /\ (ended(p) /\ publishing(p)) => ppc[p] = "failed"
                    /\ call_places(p, "create_version") # {} => ppc[p] = "failed")
    /\ <>(\A p \in PipeRuns : ended(p))

\* both runs passed the version probe before either created the version; one
\* published a platform, the other was refused at create-version and failed
C12_Witness ==
    \E p \in PipeRuns : \E q \in PipeRuns \ {p} :
        /\ ppc[p] = "done"
        /\ result[p] = <<1>>
        /\ ppc[q] = "failed"
        /\ calls[q][1].op = "check_version"
        /\ calls[q][1].status = 404
        /\ calls[q][Len(calls[q])].op = "create_version"
        /\ calls[q][Len(calls[q])].status = 422

\* C14: no create-provider call is issued for a provider that exists at the
\* time of the call, whatever the probe was answered and however runs overlap.
C14_NeverCreatesExistingProvider ==
    [][\A p \in PipeRuns :
          (ppc[p] = "create_provider" /\ calls'[p] # calls[p]) => ~reg_provider]_vars

\* the operations a sync run performs on the private registry: probes, creates
\* and uploads, nothing that removes or undoes
publish_ops == {"check_provider", "create_provider", "create_version",
                "upload_shasums", "upload_signature", "create_platform",
                "upload_binary"}

\* C15: a call that failed is the run's last call and leaves the run failed;
\* a failed run stays failed and issues no further call; a run issues only
\* probes, creates and uploads; and no step removes a resource the registry
\* holds.
C15_FailureStopsWithoutRollback ==
    /\ [](\A p \in PipeRuns :
              /\ \A c \in 1 .. Len(calls[p]) :
                    /\ calls[p][c].op \in publish_ops
                    /\ ~calls[p][c].ok => (c = Len(calls[p]) /\ ppc[p] = "failed"))
    /\ [][/\ \A p \in PipeRuns :
                ppc[p] = "failed" => (ppc'[p] = "failed" /\ calls'[p] = calls[p])
          /\ reg_provider => reg_provider'
          /\ reg_version => reg_version'
          /\ reg_platforms \subseteq reg_platforms'
          /\ reg_uploads \subseteq reg_uploads']_vars

\* a run that created provider, version and a platform and then failed at a
\* later call, all three still in the registry
C15_Witness ==
    /\ ppc["p1"] = "failed"
    /\ call_places("p1", "create_provider") # {}
    /\ created_version("p1")
    /\ Len(calls["p1"]) >= 7
    /\ ~calls["p1"][Len(calls["p1"])].ok
    /\ reg_provider
    /\ reg_version
    /\ reg_platforms # {}

\* the existence checks of a sync run
existence_checks == {"check_version", "check_provider"}

\* C26: a version probe or provider check that the private registry answers
\* with a status other than 200 or 404 is the run's last call and fails the
\* run; the run does not go on to fetch, create or publish.
C26_UnexpectedStatusIsFatal ==
    \A p \in PipeRuns :
        \A c \in 1 .. Len(calls[p]) :
            /\ calls[p][c].op \in existence_checks
            /\ calls[p][c].status \notin {200, 404}
            => /\ c = Len(calls[p])
               /\ ppc[p] = "failed"
               /\ fetch_calls[p] = <<>>

\* a run whose version probe was answered 500 went on and created the version
C26_Witness ==
    \E p \in PipeRuns :
        /\ calls[p] # <<>>
        /\ calls[p][1].op = "check_version"
        /\ calls[p][1].status = 500
        /\ created_version(p)

\* ------------------------------------------------------------- re-runs
\* C16: while the version a failed run ("p1") left behind is still in the
\* registry, a re-run ("p2") of the same provider version sends no
\* create-provider, has no create-version accepted, creates no platform,
\* uploads nothing and does not finish.
C16_RerunStopsAtCreateVersion ==
    (ppc["p1"] = "failed" /\ created_version("p1") /\ operator_deletes = 0) =>
        /\ call_places("p2", "create_provider") = {}
        /\ ~created_version("p2")
        /\ \A c \in 1 .. Len(calls["p2"]) : calls["p2"][c].op \notin after_version_ops
        /\ ppc["p2"] # "done"

\* after the operator removed the partial version, the re-run created the
\* version again and published its platform
C16_Witness ==
    /\ ppc["p1"] = "failed"
    /\ created_version("p1")
    /\ operator_deletes = 1
    /\ ppc["p2"] = "done"
    /\ created_version("p2")
    /\ result["p2"] = <<1>>

\* ---------------------------------------------------- the comparator: claims
\* every component is a non-negative integer
numeric(cs) == \A i \in 1 .. Len(cs) : cs[i].int # <<>>

\* the integers the components denote
int_tuple(cs) == [i \in 1 .. Len(cs) |-> cs[i].int[1]]

\* lexicographic order of two integer tuples of one length
lex_lt(s, t) ==
    \E i \in 1 .. Len(s) :
        /\ \A j \in 1 .. i - 1 : s[j] = t[j]
        /\ s[i] < t[i]

\* a tuple with zeros appended up to length n
zero_padded(s, n) == [i \in 1 .. n |-> IF i <= Len(s) THEN s[i] ELSE 0]

Text_2_9_0 == <<"2", ".", "9", ".", "0">>

Text_2_10_0 == <<"2", ".", "1", "0", ".", "0">>

\* C18: the key of a dotted string of non-negative integers is the tuple of
\* those integers, and two such strings with the same number of components
\* compare as their integer tuples do lexicographically; 2.9.0 is below 2.10.0
\* and not the other way round.
C18_NumericComparison ==
    cpc = "compared" =>
        /\ (numeric(components_a) /\ numeric(components_b)
                /\ Len(components_a) = Len(components_b)) =>
              LET ta == int_tuple(components_a)
                  tb == int_tuple(components_b)
              IN  /\ key_a = <<ta>>
                  /\ key_b = <<tb>>
                  /\ comparison = "less" <=> lex_lt(ta, tb)
                  /\ comparison = "greater" <=> lex_lt(tb, ta)
                  /\ comparison = "equal" <=> ta = tb
        /\ (version_a = Text_2_9_0 /\ version_b = Text_2_10_0) => comparison = "less"
        /\ (version_a = Text_2_10_0 /\ version_b = Text_2_9_0) => comparison = "greater"

\* 2.9.0 compared with 2.10.0
C18_Witness ==
    /\ cpc = "compared"
    /\ version_a = Text_2_9_0
    /\ version_b = Text_2_10_0
    /\ key_a = <<<<2, 9, 0>>>>
    /\ key_b = <<<<2, 10, 0>>>>
    /\ comparison = "less"

\* C19 as stated: the key of a malformed version string sorts below the key of
\* every valid version.
C19_MalformedBelowEveryValid ==
    (cpc = "compared" /\ ~numeric(components_a) /\ numeric(components_b)) =>
        /\ key_a # <<>>
        /\ comparison = "less"

\* C19: parse_version returns a key for every version string; for a malformed
\* one it is (0, 0, 0), which ties with the valid version 0.0.0 and sorts below
\* every other valid version except 0 and 0.0, whose shorter all-zero keys sort
\* below it.
C19_MalformedGetsSentinel ==
    /\ cpc \in {"parsed", "compared"} => (key_a # <<>> /\ key_b # <<>>)
    /\ (cpc = "compared" /\ ~numeric(components_a) /\ numeric(components_b)) =>
          /\ key_a = <<<<0, 0, 0>>>>
          /\ comparison = "equal" <=> int_tuple(components_b) = <<0, 0, 0>>
          /\ comparison = "greater" <=> int_tuple(components_b) \in {<<0>>, <<0, 0>>}

\* not-a-version compared with the valid 0.0.0: the keys tie
C19_Witness ==
    /\ cpc = "compared"
    /\ ~numeric(components_a)
    /\ Len(components_a) = 1
    /\ Len(version_a) = 13
    /\ numeric(components_b)
    /\ int_tuple(components_b) = <<0, 0, 0>>
    /\ comparison = "equal"

\* C20: two valid versions with different numbers of components compare as
\* their integer tuples do once the shorter is padded with zeros to the length
\* of the longer; 1.2 and 1.2.0 compare equal.
C20_ShorterTupleZeroPadded ==
    (cpc = "compared" /\ numeric(components_a) /\ numeric(components_b)) =>
        LET n == IF Len(components_a) > Len(components_b)
                 THEN Len(components_a) ELSE Len(components_b)
            pa == zero_padded(int_tuple(components_a), n)
            pb == zero_padded(int_tuple(components_b), n)
        IN  /\ comparison = "less" <=> lex_lt(pa, pb)
            /\ comparison = "equal" <=> pa = pb

\* --------------------------------------------------- the listers: claims
\* the items of the fetched pages one after the other, in the order fetched
RECURSIVE pages_in_order(_)
pages_in_order(fetches) ==
    IF fetches = <<>> THEN <<>>
    ELSE Head(fetches).items \o pages_in_order(Tail(fetches))

\* the GETs went to the first page, then to each page's links.next in turn
followed_next(fetches) ==
    /\ fetches # <<>>
    /\ fetches[1].page = 1
    /\ \A i \in 2 .. Len(fetches) : fetches[i].page = fetches[i - 1].next

\* no page was fetched twice
each_page_once(fetches) ==
    \A i \in 1 .. Len(fetches), j \in 1 .. Len(fetches) :
        i # j => fetches[i].page # fetches[j].page

\* C23: a lister that returns, returns the items of all pages concatenated in
\* the order visited, having followed links.next from the first page until a
\* page had none and fetched each page once; a lister whose page GET fails
\* raises at that GET and returns nothing, not even the pages it had.
C23_ListerReturnsAllPages ==
    /\ lpc \in {"returned", "raised"} =>
           followed_next(page_fetches) /\ each_page_once(page_fetches)
    /\ lpc = "returned" =>
           /\ \A i \in 1 .. Len(page_fetches) : page_fetches[i].status = 200
           /\ page_fetches[Len(page_fetches)].next = 0
           /\ list_result = <<pages_in_order(page_fetches)>>
           /\ list_result = <<listing>>
    /\ lpc = "raised" =>
           /\ page_fetches[Len(page_fetches)].status # 200
           /\ \A i \in 1 .. Len(page_fetches) - 1 :
                  page_fetches[i].status = 200 /\ page_fetches[i].next # 0
           /\ list_result = <<>>
    /\ lpc = "loop" => list_result = <<>>

\* list_providers returned a collection of three pages
C23_Witness ==
    /\ lister = "list_providers"
    /\ lpc = "returned"
    /\ Len(page_fetches) >= 3
    /\ Len(list_result[1]) > 2 * PageSize

\* ---------------------------------------------------- read_config: claims
\* the text spells the token "latest" in some letter case
says_latest(text) ==
    /\ Len(text) = Len(T_latest)
    /\ \A i \in 1 .. Len(text) : text[i] \in {T_latest[i], T_LATEST[i]}

\* the entry asks for the latest version: no 'version', or the token
wants_latest(entry) == entry.version = <<>> \/ says_latest(entry.version[1])

\* the enriched entries built so far, and the returned ones
built_entries == Range(enriched_providers) \cup
                     (IF config_result = <<>> THEN {} ELSE Range(config_result[1]))

\* a sync run has been started or has touched a registry or the store
downstream_active ==
    \/ \E p \in PipeRuns : ppc[p] # "off" \/ calls[p] # <<>> \/ fetch_calls[p] # <<>>
    \/ s3_objects # {}
    \/ reg_version

\* C24: every entry read_config emits whose 'version' was absent or the token
\* "latest" in any letter case carries the version the source registry
\* answered for it, every other entry its own version, and none carries the
\* token; no sync run starts, downloads or changes the private registry until
\* read_config has returned, and the entry it works on carries no token.
C24_LatestResolvedBeforeSync ==
    /\ \A e \in built_entries :
           /\ ~says_latest(e.version)
           /\ IF wants_latest(providers[e.entry])
              THEN \E c \in 1 .. Len(latest_calls) :
                       /\ latest_calls[c].entry = e.entry
                       /\ latest_calls[c].status = 200
                       /\ latest_calls[c].version = <<e.version>>
              ELSE providers[e.entry].version = <<e.version>>
    /\ cfg_pc = "returned" =>
           /\ Len(config_result[1]) = Len(providers)
           /\ \A i \in 1 .. Len(providers) : config_result[1][i].entry = i
    /\ downstream_active =>
           /\ cfg_pc = "returned"
           /\ dispatched \in 1 .. Len(config_result[1])
           /\ ~says_latest(config_result[1][dispatched].version)

\* an entry written "LATEST" was resolved, handed on and published
C24_Witness ==
    /\ cfg_pc = "returned"
    /\ dispatched # 0
    /\ providers[dispatched].version = <<T_LATEST>>
    /\ config_result[1][dispatched].version \in SourceVersions
    /\ \E p \in PipeRuns : ppc[p] = "done"

\* C25: a document with an entry that lacks a required field is rejected
\* before any call to a remote registry is made, also when the invalid entry
\* follows valid entries whose version is "latest".
C25_InvalidRejectedBeforeRemoteCall ==
    (\E i \in 1 .. Len(providers) : lacks_required_field(providers[i])) =>
        /\ latest_calls = <<>>
        /\ cfg_pc # "returned"

\* a document was rejected for its second entry after the first, a "latest"
\* entry, had been resolved
C25_Witness ==
    /\ cfg_pc = "raised"
    /\ idx = 1
    /\ wants_latest(providers[1])
    /\ lacks_required_field(providers[2])
    /\ Len(latest_calls) = 1

\* ------------------------------------------------------ every run: claims
\* the source-registry resource a fetch call is for: a platform's descriptor
\* or binary, or the version's one checksum manifest or signature
fetch_resource(c) ==
    IF c.op \in {"lookup", "binary"} THEN <<c.op, c.platform>> ELSE <<c.op, "">>

\* no two calls of the history are for the same resource
at_most_once(resources) ==
    \A c \in 1 .. Len(resources), d \in 1 .. Len(resources) :
        c # d => resources[c] # resources[d]

\* C28: within one run no descriptor lookup, download, existence check,
\* create, upload or delete is issued twice for the same resource, and a fetch
\* or publish call that failed is the run's last call of its kind and leaves
\* the run failed.
C28_NoRetry ==
    /\ \A p \in PipeRuns :
          /\ at_most_once([c \in 1 .. Len(fetch_calls[p]) |->
                              fetch_resource(fetch_calls[p][c])])
          /\ at_most_once(call_ops(p))
          /\ \A c \in 1 .. Len(fetch_calls[p]) :
                 fetch_failed_at(p, c) =>
                     /\ c = Len(fetch_calls[p])
                     /\ calls[p] = <<>>
                     /\ ppc[p] = "failed"
          /\ \A c \in 1 .. Len(calls[p]) :
                 ~calls[p][c].ok => (c = Len(calls[p]) /\ ppc[p] = "failed")
    /\ \A r \in RetRuns : at_most_once(called_versions(r))

\* a retention run ended after its first DELETE had failed and a later one
\* had been issued
C28_Witness ==
    \E r \in RetRuns :
        /\ rpc[r] = "done"
        /\ Len(delete_calls[r]) >= 2
        /\ delete_calls[r][1].status = 500

\* --------------------------------------------------- the CA bundle: claims
\* the calls that went to Secrets Manager
retrievals == {c \in 1 .. Len(ca_calls) : ca_calls[c].retrieved}

\* C29: over the get_ca_bundle_path calls of one process the secret is
\* retrieved at most once, and the cached path, once set, stays what it is.
C29_SecretRetrievedOnce ==
    /\ Cardinality(retrievals) <= 1
    /\ \A c \in 1 .. Len(ca_calls), d \in 1 .. Len(ca_calls) :
           c < d /\ ca_calls[c].path_after # <<>> =>
               ca_calls[d].path_after = ca_calls[c].path_after

\* a retrieval failed and the next call retrieved again; once a path was
\* cached the later calls returned it without retrieving
C29_Witness ==
    /\ Len(ca_calls) >= 4
    /\ ca_calls[1].outcome = "secret_error"
    /\ ca_calls[2].outcome = "written"
    /\ ca_calls[3].outcome = "cached"
    /\ ca_calls[4].returned = ca_calls[2].returned
    /\ Cardinality(retrievals) = 2

\* ------------------------------------------------ prefixed versions: claims
\* the prefix version_a is written with ahead of version_b
prefix_a == SubSeq(version_a, 1, Len(version_a) - Len(version_b))

\* C30: a version string written as a prefix of non-digit characters followed
\* by dotted integers parses to the key of the dotted integers alone.
C30_PrefixStripped ==
    cpc \in {"parsed", "compared"} /\ numeric(components_b) =>
        /\ key_a = key_b
        /\ key_a = <<int_tuple(components_b)>>

\* "V10.9.0" and "10.9.0" have been parsed
C30_Witness ==
    /\ cpc = "parsed"
    /\ prefix_a = <<"V">>
    /\ components_b = <<IntComponent(10), IntComponent(9), IntComponent(0)>>
    /\ key_b = <<<<10, 9, 0>>>>
    /\ key_a = <<<<0, 0, 0>>>>


\* ----------------------------------------------- retention: the listing
\* the page GETs of a run so far walk the chain from page 1, each answered
complete_chain(r) ==
    /\ page_calls[r] # <<>>
    /\ page_calls[r][1].page = 1
    /\ \A c \in 1 .. Len(page_calls[r]) :
          /\ page_calls[r][c].ok
          /\ c < Len(page_calls[r]) =>
                /\ page_calls[r][c].next # 0
                /\ page_calls[r][c + 1].page = page_calls[r][c].next

\* ... and the last page fetched named no next page
complete_listing(r) ==
    /\ complete_chain(r)
    /\ page_calls[r][Len(page_calls[r])].next = 0

\* a page GET of the run failed
page_failed(r) == \E c \in 1 .. Len(page_calls[r]) : ~page_calls[r][c].ok

\* C31: a run issues a DELETE only after the whole listing succeeded, every
\* page up to the one without a next link, and only for versions of that
\* listing; a run one of whose page GETs failed issues no DELETE, schedules
\* nothing and reports nothing deleted
C31_DeleteOnlyAfterCompleteListing ==
    \A r \in RetRuns :
        /\ (delete_calls[r] # <<>> \/ Planned(r)) =>
              /\ complete_listing(r)
              /\ Range(called_versions(r)) \subseteq Range(versions[r])
        /\ page_failed(r) =>
              /\ rpc[r] = "failed"
              /\ delete_calls[r] = <<>>
              /\ versions_to_delete[r] = <<>>
              /\ deleted_versions[r] = <<>>

\* a DELETE went out after a listing of two pages
C31_Witness ==
    /\ Len(page_calls["r1"]) >= 2
    /\ complete_listing("r1")
    /\ delete_calls["r1"] # <<>>

\* the second page of a listing failed behind a first page that was served
C31_FailedSecondPage ==
    /\ Len(page_calls["r1"]) = 2
    /\ page_calls["r1"][1].ok
    /\ page_failed("r1")
    /\ Len(versions["r1"]) > keep_count

\* ------------------------------------------- retention: page chains
\* the pages of a listing; an empty listing is served as one empty page
page_count(order) ==
    IF order = <<>> THEN 1 ELSE (Len(order) + PageSize - 1) \div PageSize

\* one retention run against a registry whose last page names no next page
\* (back_link = 0) or links back to one of its pages
RetentionChainInit ==
    /\ RunsIdle
    /\ rpc = [r \in RetRuns |-> IF r = "r1" THEN "list" ELSE "off"]
    /\ dry_run \in BOOLEAN
    /\ registry_order \in NoDupSeqs(PairVersionPool, MaxVersions)
    /\ back_link \in 0 .. page_count(registry_order)
    /\ keep_count \in 0 .. MaxKeep
    /\ start_order = registry_order
    /\ start_newest = newest_of(registry_order, keep_count)
    /\ PipelineIdle
    /\ platforms = <<>>
    /\ reg_provider = TRUE
    /\ reg_version = FALSE
    /\ NoRelease
    /\ mode = [p \in PipeRuns |-> "off"]
    /\ ppc = [p \in PipeRuns |-> "off"]
    /\ ComparatorIdle
    /\ AuxIdle

RetentionChainSpec == RetentionChainInit /\ [][RetentionNext]_vars

\* no page was fetched twice by the run
each_page_fetched_once(r) ==
    \A c, d \in 1 .. Len(page_calls[r]) :
        c # d => page_calls[r][c].page # page_calls[r][d].page

\* the DELETE calls follow the schedule, one per scheduled version, and the
\* schedule is drawn from the listing without repetition
one_delete_per_version(r) ==
    /\ Len(delete_calls[r]) <= Len(versions_to_delete[r])
    /\ \A c \in 1 .. Len(delete_calls[r]) :
          delete_calls[r][c].version = versions_to_delete[r][c]
    /\ \A c, d \in 1 .. Len(versions_to_delete[r]) :
          c # d => versions_to_delete[r][c] # versions_to_delete[r][d]
    /\ Range(versions_to_delete[r]) \subseteq Range(versions[r])

\* the run has returned or raised
run_ended(r) == rpc[r] \in {"off", "done", "failed"}

\* the run stands in the listing loop with all the page GETs followed used up
list_cut_short(r) == rpc[r] = "list" /\ Len(page_calls[r]) >= MaxPageFetches

\* the steps a run has taken: its page GETs, its plan, its turns of the
\* delete loop
run_steps(r) ==
    Len(page_calls[r]) + (IF Planned(r) THEN 1 ELSE 0) + (pos[r] - 1)

\* the locals of a run
run_locals(r) ==
    <<rpc[r], url[r], versions[r], kept_versions[r], versions_to_delete[r],
      deleted_versions[r], pos[r], delete_calls[r], page_calls[r]>>

\* C35: against a registry whose page chain ends, a run fetches no page
\* twice, issues at most one DELETE per listed version, and has ended after
\* at most one page GET per page of the listing it started on, one plan and
\* one turn of the delete loop per listed version, every step it takes being
\* one of these (so it terminates); against a chain whose last page links
\* back, the lister leaves its loop only by a failed page GET: the run
\* never gets to its plan
C35_FiniteChainTerminates ==
    /\ [](\A r \in RetRuns :
            IF back_link = 0
            THEN /\ each_page_fetched_once(r)
                 /\ one_delete_per_version(r)
                 /\ ~list_cut_short(r)
                 /\ Len(page_calls[r]) <= page_count(start_order)
                 /\ pos[r] - 1 <= Len(versions_to_delete[r])
                 /\ Len(versions_to_delete[r]) <= Len(start_order)
                 /\ (run_steps(r) = page_count(start_order) + 1 + Len(start_order)
                        => run_ended(r))
            ELSE rpc[r] \in {"off", "list", "failed"})
    /\ [][\A r \in RetRuns :
            run_locals(r)' # run_locals(r) =>
                /\ ~run_ended(r)
                /\ run_steps(r)' = run_steps(r) + 1]_vars

\* a run against a two-page chain that ended after its DELETE calls
C35_Witness ==
    /\ back_link = 0
    /\ rpc["r1"] = "done"
    /\ Len(page_calls["r1"]) = 2
    /\ Len(delete_calls["r1"]) >= 2

\* a run against a chain that links back, fetching the first page again and
\* again until the page GETs followed are used up
C35_LoopingRun ==
    /\ back_link = 1
    /\ list_cut_short("r1")
    /\ \E c \in 2 .. Len(page_calls["r1"]) : page_calls["r1"][c].page = 1

\* ------------------------------------- the publisher: missing references
\* the run's manifest lacks the checksum-manifest or the signature reference
lacks_reference(p) ==
    /\ manifest[p] # <<>>
    /\ (~manifest[p][1].shasums \/ ~manifest[p][1].signature)

\* every registry call the run made was answered as the protocol expects
all_calls_ok(p) == \A c \in 1 .. Len(calls[p]) : calls[p][c].ok

\* C33: a publish run whose manifest lacks the checksum-manifest or the
\* signature reference still begins with the provider check (the missing
\* reference stops nothing before the first registry mutation); if the
\* registry accepts its calls it creates the version and then fails, without
\* any platform call and without any upload: the version is left in the
\* registry without artifacts
C33_MissingReferenceLeavesBareVersion ==
    \A p \in PipeRuns :
        (lacks_reference(p) /\ ended(p)) =>
            /\ ppc[p] = "failed"
            /\ publishing(p)
            /\ call_places(p, "create_platform") = {}
            /\ call_places(p, "upload_binary") = {}
            /\ all_calls_ok(p) =>
                  /\ created_version(p)
                  /\ reg_version
                  /\ reg_platforms = {}
                  /\ reg_uploads = {}

\* a run without a signature reference has ended after its version was created
C33_Witness ==
    \E p \in PipeRuns :
        /\ lacks_reference(p)
        /\ ended(p)
        /\ created_version(p)
        /\ all_calls_ok(p)

\* the single-process publisher left the checksum manifest in the version
C33_ChecksumsLeftBehind ==
    /\ lacks_reference("p1")
    /\ ended("p1")
    /\ mode["p1"] = "single"
    /\ reg_uploads = {"SHA256SUMS"}
    /\ reg_platforms = {}

\* the same manifest in the split publisher: nothing uploaded
C33_SplitLeavesBareVersion ==
    /\ manifest["p1"] # <<>>
    /\ manifest["p1"][1].shasums
    /\ ~manifest["p1"][1].signature
    /\ ended("p1")
    /\ mode["p1"] = "split"
    /\ created_version("p1")
    /\ reg_uploads = {}

\* --------------------------------------------- the two publishers compared
\* the calls download_and_upload.upload_to_hcp issues for a manifest when the
\* registry accepts every call: it opens each file only when its turn comes
single_publisher_calls(created, m) ==
    LET all == expected_calls(created, m.binaries)
        upto_version == Len(all) - 2 - 2 * Len(m.binaries)
    IN  IF ~m.shasums THEN SubSeq(all, 1, upto_version)
        ELSE IF ~m.signature THEN SubSeq(all, 1, upto_version + 1)
        ELSE all

\* s is t cut off somewhere
is_prefix(s, t) == Len(s) <= Len(t) /\ s = SubSeq(t, 1, Len(s))

\* the split publisher stopped although the registry accepted every call and
\* the manifest names both files: a read of the intermediate store failed
store_read_failed(p) ==
    /\ mode[p] = "split"
    /\ ppc[p] = "failed"
    /\ all_calls_ok(p)
    /\ manifest[p][1].shasums
    /\ manifest[p][1].signature

\* C32: for the same manifest and the same registry answers the split
\* publisher issues the calls the single-process publisher issues and stops
\* where it stops: up to the first call the registry refuses, and, when the
\* registry accepts every call, the whole sequence the single-process
\* publisher gets through for that manifest (reads of the intermediate store
\* that fail are left aside)
C32_PublishersAgree ==
    \A p \in PipeRuns :
        (ended(p) /\ publishing(p) /\ ~store_read_failed(p)) =>
            LET m == manifest[p][1]
                single == single_publisher_calls(provider_exists[p] = <<FALSE>>, m)
            IN  /\ is_prefix(call_ops(p), single)
                /\ \A c \in 1 .. Len(calls[p]) - 1 : calls[p][c].ok
                /\ all_calls_ok(p) => call_ops(p) = single
                /\ (ppc[p] = "done") <=>
                      (all_calls_ok(p) /\ m.shasums /\ m.signature)

\* a split run whose manifest names the checksum manifest but no signature
\* stopped behind create_version, every call accepted
C32_Witness ==
    \E p \in PipeRuns :
        /\ mode[p] = "split"
        /\ ended(p)
        /\ all_calls_ok(p)
        /\ manifest[p] # <<>>
        /\ manifest[p][1].shasums
        /\ ~manifest[p][1].signature
        /\ calls[p][Len(calls[p])].op = "create_version"

\* the statement, for the single-process publisher alone
C32_SingleAsDescribed ==
    \A p \in PipeRuns :
        (mode[p] = "single" /\ ended(p) /\ publishing(p)) =>
            LET m == manifest[p][1]
                single == single_publisher_calls(provider_exists[p] = <<FALSE>>, m)
            IN  /\ is_prefix(call_ops(p), single)
                /\ \A c \in 1 .. Len(calls[p]) - 1 : calls[p][c].ok
                /\ all_calls_ok(p) => call_ops(p) = single
                /\ (ppc[p] = "done") <=>
                      (all_calls_ok(p) /\ m.shasums /\ m.signature)

\* the statement, for the split publisher on manifests that name both files
C32_SplitAgreesOnFullManifests ==
    \A p \in PipeRuns :
        (mode[p] = "split" /\ ended(p) /\ publishing(p) /\ ~store_read_failed(p)
            /\ manifest[p][1].shasums = manifest[p][1].signature) =>
            LET m == manifest[p][1]
                single == single_publisher_calls(provider_exists[p] = <<FALSE>>, m)
            IN  /\ is_prefix(call_ops(p), single)
                /\ \A c \in 1 .. Len(calls[p]) - 1 : calls[p][c].ok
                /\ all_calls_ok(p) => call_ops(p) = single
                /\ (ppc[p] = "done") <=>
                      (all_calls_ok(p) /\ m.shasums /\ m.signature)

\* ------------------------------------------- fetch runs sharing the store
\* the events of download_to_s3
FetchEventPool ==
    [namespace : NamespacePool, provider : ProviderNamePool,
     version : FetchVersionPool,
     platforms : NoDupSeqs(FetchPlatformPool, MaxFetchPlatforms)]

\* two split fetch runs at the same time on one bucket
FetchKeysInit ==
    /\ fetch_event \in [FetchRuns -> FetchEventPool]
    /\ store_objects = {}
    /\ store_puts = [f \in FetchRuns |-> <<>>]
    /\ fetch_pc = [f \in FetchRuns |-> "put"]
    /\ HandlerIdle
    /\ ListerIdle
    /\ ConfigIdle
    /\ CaBundleIdle
    /\ RetentionOff
    /\ PipelineOff
    /\ ComparatorIdle

FetchKeysNext ==
    \/ \E f \in FetchRuns : StorePut(f)
    \/ \E f \in FetchRuns : FetchRaise(f)

FetchKeysSpec == FetchKeysInit /\ [][FetchKeysNext]_vars

\* the two events name the same provider and the same version
same_target(f, g) ==
    /\ fetch_event[f].provider = fetch_event[g].provider
    /\ fetch_event[f].version = fetch_event[g].version

\* the objects in the store that run f wrote and that are still its own
own_objects(f) == {o.key : o \in {x \in store_objects : x.by = f}}

\* C36: the keys a fetch run writes are the same whatever its source
\* namespace; the key sets of two runs are disjoint exactly when the runs
\* differ in provider name or version, and so are the keys they have written
\* when they differ; of two finished runs for the same provider name and
\* version the store holds the manifest.json (and every key both wrote) of
\* one only, the other's objects having been replaced
C36_KeysIgnoreNamespace ==
    \A f \in FetchRuns :
        /\ \A ns \in NamespacePool :
              fetch_keys([fetch_event[f] EXCEPT !.namespace = ns])
                  = fetch_keys(fetch_event[f])
        /\ \A g \in FetchRuns \ {f} :
              /\ (Range(fetch_keys(fetch_event[f]))
                    \cap Range(fetch_keys(fetch_event[g])) = {})
                    <=> ~same_target(f, g)
              /\ ~same_target(f, g) =>
                    /\ Range(store_puts[f]) \cap Range(store_puts[g]) = {}
                    /\ own_objects(f) = Range(store_puts[f])
              /\ (same_target(f, g) /\ fetch_pc[f] = "done" /\ fetch_pc[g] = "done") =>
                    /\ Range(store_puts[f]) \cap Range(store_puts[g]) # {}
                    /\ \A k \in Range(store_puts[f]) \cap Range(store_puts[g]) :
                          (k \in own_objects(f)) # (k \in own_objects(g))

\* two finished runs for the same provider name and version from different
\* namespaces: the store holds the first run's binary for one platform next
\* to the second run's manifest.json
C36_Witness ==
    /\ same_target("f1", "f2")
    /\ fetch_event["f1"].namespace # fetch_event["f2"].namespace
    /\ fetch_pc["f1"] = "done"
    /\ fetch_pc["f2"] = "done"
    /\ own_objects("f1") # {}
    /\ Range(store_puts["f2"]) \subseteq own_objects("f2")
    /\ own_objects("f1") # Range(store_puts["f1"])

\* --------------------------------------- the cleanup handler, all providers
\* the providers of the organization, and the version listings one of them
\* may have when its turn comes
CleanupProviderPool == {"aws", "azurerm", "google"}
ProviderListings == {<<>>, <<V_1_9_0, V_1_10_0>>, <<V_1_10, V_1_9_0, V_1_10_0>>}

\* a handler that leaves the loop behind the first provider
after_provider_breaks(last) == "summary"

\* the for loop over providers goes on behind results.append, in the try
\* and in the except clause alike
after_provider(last) == IF last THEN "summary" ELSE "cleanup"

\* the result of cleanup_provider_versions: the early return carries no
\* 'deleted_count'
cleanup_result(provider, r) ==
    [provider |-> provider, error |-> FALSE,
     total_versions |-> Len(versions[r]),
     deleted_versions |-> deleted_versions[r],
     deleted_count |-> IF Len(versions[r]) <= keep_count THEN <<>>
                       ELSE <<Len(deleted_versions[r])>>]

\* {'provider': provider_name, 'error': str(e)}
error_result(provider) ==
    [provider |-> provider, error |-> TRUE, total_versions |-> 0,
     deleted_versions |-> <<>>, deleted_count |-> <<>>]

\* r.get('deleted_count', 0)
get_deleted_count(entry) ==
    IF entry.deleted_count = <<>> THEN 0 ELSE entry.deleted_count[1]

\* sum(r.get('deleted_count', 0) for r in results if 'error' not in r)
RECURSIVE total_deleted(_)
total_deleted(rs) ==
    IF rs = <<>> THEN 0
    ELSE (IF Head(rs).error THEN 0 ELSE get_deleted_count(Head(rs)))
            + total_deleted(Tail(rs))

\* len([r for r in results if r.get('deleted_count', 0) > 0])
providers_cleaned(rs) ==
    Cardinality({i \in 1 .. Len(rs) : get_deleted_count(rs[i]) > 0})

\* providers = list_providers(...): it returns the listing, or it raises and
\* the handler's outer except returns the error
ListProviders ==
    /\ hpc = "list_providers"
    /\ \/ \E ps \in NoDupSeqs(CleanupProviderPool, MaxProviders) :
             /\ all_providers' = ps
             /\ hpc' = IF ps = <<>> THEN "summary" ELSE "cleanup"
             /\ UNCHANGED summary
       \/ /\ summary' = <<[status |-> "error", total_providers_checked |-> 0,
                           providers_cleaned |-> 0, total_versions_deleted |-> 0]>>
          /\ hpc' = "returned"
          /\ UNCHANGED all_providers
    /\ UNCHANGED <<provider_idx, results>>
    /\ UNCHANGED <<retVars, pipeVars, cmpVars, lstVars, cfgVars, caVars, storeVars>>

\* the head of the for loop: cleanup_provider_versions is called for the
\* next provider, whatever versions the registry holds of it
StartCleanup ==
    /\ hpc = "cleanup"
    /\ \E order \in ProviderListings : registry_order' = order
    /\ rpc' = [rpc EXCEPT !["r1"] = "list"]
    /\ url' = [url EXCEPT !["r1"] = 1]
    /\ versions' = [versions EXCEPT !["r1"] = <<>>]
    /\ kept_versions' = [kept_versions EXCEPT !["r1"] = <<>>]
    /\ versions_to_delete' = [versions_to_delete EXCEPT !["r1"] = <<>>]
    /\ deleted_versions' = [deleted_versions EXCEPT !["r1"] = <<>>]
    /\ pos' = [pos EXCEPT !["r1"] = 1]
    /\ delete_calls' = [delete_calls EXCEPT !["r1"] = <<>>]
    /\ page_calls' = [page_calls EXCEPT !["r1"] = <<>>]
    /\ hpc' = "running"
    /\ UNCHANGED <<start_order, start_newest, removals, keep_count, dry_run,
                   back_link>>
    /\ UNCHANGED <<all_providers, provider_idx, results, summary>>
    /\ UNCHANGED <<pipeVars, cmpVars, lstVars, cfgVars, caVars, storeVars>>

\* results.append(result), or the except clause's results.append of the
\* error entry
RecordResult ==
    /\ hpc = "running"
    /\ rpc["r1"] \in {"done", "failed"}
    /\ LET provider == all_providers[provider_idx + 1]
       IN  results' = Append(results,
                IF rpc["r1"] = "failed" THEN error_result(provider)
                ELSE cleanup_result(provider, "r1"))
    /\ provider_idx' = provider_idx + 1
    /\ hpc' = after_provider(provider_idx + 1 = Len(all_providers))
    /\ UNCHANGED <<all_providers, summary>>
    /\ UNCHANGED <<retVars, pipeVars, cmpVars, lstVars, cfgVars, caVars, storeVars>>

\* the summary and the return
Summarize ==
    /\ hpc = "summary"
    /\ summary' = <<[status |-> "success",
                     total_providers_checked |-> Len(results),
                     providers_cleaned |-> providers_cleaned(results),
                     total_versions_deleted |-> total_deleted(results)]>>
    /\ hpc' = "returned"
    /\ UNCHANGED <<all_providers, provider_idx, results>>
    /\ UNCHANGED <<retVars, pipeVars, cmpVars, lstVars, cfgVars, caVars, storeVars>>

\* one invocation without a provider filter
AllProvidersInit ==
    /\ RetentionIdle
    /\ rpc = [r \in RetRuns |-> "off"]
    /\ registry_order = <<>>
    /\ start_order = <<>>
    /\ start_newest = {}
    /\ keep_count \in 1 .. MaxKeep - 1
    /\ dry_run \in BOOLEAN
    /\ all_providers = <<>>
    /\ provider_idx = 0
    /\ results = <<>>
    /\ summary = <<>>
    /\ hpc = "list_providers"
    /\ StoreIdle
    /\ ListerIdle
    /\ ConfigIdle
    /\ CaBundleIdle
    /\ PipelineOff
    /\ ComparatorIdle

AllProvidersNext ==
    \/ ListProviders
    \/ StartCleanup
    \/ ListPage("r1")
    \/ Plan("r1")
    \/ DeleteStep("r1")
    \/ RecordResult
    \/ Summarize

AllProvidersSpec == AllProvidersInit /\ [][AllProvidersNext]_vars

\* ------------------------------------ the cleanup handler: the claims
\* the handler has returned its summary
handler_returned == hpc = "returned" /\ summary # <<>> /\ summary[1].status = "success"

\* the deleted_count of the entries added up, an entry without one counting 0
RECURSIVE sum_deleted_count(_)
sum_deleted_count(rs) ==
    IF rs = <<>> THEN 0
    ELSE get_deleted_count(Head(rs)) + sum_deleted_count(Tail(rs))

\* C34: in all-providers mode a provider whose cleanup raises gets an error
\* entry and the loop goes on: the result appended for a provider is an error
\* entry exactly when its cleanup raised, otherwise the count of the versions
\* that cleanup reports deleted, and the loop then turns to the next provider
\* or to the summary; the returned summary has one result per provider of the
\* listing, in order, and its total_versions_deleted is the sum of
\* deleted_count over the results that are no error entries
C34_FailuresIsolatedPerProvider ==
    /\ [](handler_returned =>
            /\ Len(results) = Len(all_providers)
            /\ \A i \in 1 .. Len(results) : results[i].provider = all_providers[i]
            /\ summary[1].total_providers_checked = Len(all_providers)
            /\ summary[1].total_versions_deleted
                  = sum_deleted_count(SelectSeq(results, LAMBDA e : ~e.error)))
    /\ [][(hpc = "running" /\ hpc' # "running") =>
            /\ Len(results') = Len(results) + 1
            /\ results'[Len(results')].provider = all_providers[Len(results')]
            /\ results'[Len(results')].error <=> (rpc["r1"] = "failed")
            /\ ~results'[Len(results')].error =>
                  get_deleted_count(results'[Len(results')]) = Len(deleted_versions["r1"])
            /\ hpc' = (IF Len(results') < Len(all_providers)
                       THEN "cleanup" ELSE "summary")]_vars

\* the first provider's listing failed, the second provider lost a version,
\* and the summary counts it
C34_Witness ==
    /\ handler_returned
    /\ Len(results) = 2
    /\ results[1].error
    /\ ~results[2].error
    /\ get_deleted_count(results[2]) >= 1
    /\ summary[1].total_versions_deleted = get_deleted_count(results[2])

=============================================================================
